---- MODULE Spec2Model ----
(***************************************************************************)
(* Model of 3D_RVE_Model.py: the fiber placement pipeline of               *)
(* create3DRVEModel (RSA seeding, random fill, anchored relaxation, final  *)
(* enforcement, distance verification) and the periodic-mirror builder.    *)
(*                                                                         *)
(* Numbers.  Lengths are fixed-point integers (grid units); a float result *)
(* is rounded to the nearest unit.  Ratios are integers with a stated      *)
(* denominator: target_Vf and rsa_seeding_ratio in percent,                *)
(* minDistanceFactor in hundredths.  A distance that the code only         *)
(* compares is represented by its square.                                  *)
(***************************************************************************)
EXTENDS Integers, Sequences, FiniteSets, TLC

VARIABLES
    pc,                    \* position in create3DRVEModel
    cfg,                   \* the arguments of create3DRVEModel
    fiberCount,            \* line 1075
    seeded_coords,         \* anchors accepted by the RSA loop
    attempt,               \* attempts used for the anchor being placed
    seeding_count_actual,  \* line 1123
    coords,                \* initial_coords / the working list of the relaxer and corrector
    iter_num,              \* loop counter of the relaxer, then of the corrector
    fiber_centers,         \* the accepted centers
    error,                 \* how the run failed, "none" otherwise
    fatal_info,            \* what the corrector's fatal message reports
    verification,          \* result of verifyMinimumFiberDistance3D
    all_fiber_centers,     \* result of buildAllFiberCenters3D
    stages,                \* the externally visible steps executed, in order
    n_draws,               \* number of points drawn from the random source
    all_cells,             \* the cells given to classifyCellsImproved
    classification,        \* what classifyCellsImproved did and returned
    slave_nodes,           \* arguments of pairBoundaryNodes3D
    master_nodes,
    pair_args,             \* its tolerance and coord_indices
    master_pool,           \* the master nodes not yet consumed
    paired_nodes,          \* the pairs appended so far
    s_next,                \* position of the slave loop
    coords_in,             \* the list given to _final_check_and_enforce (relaxed_coords)
    circle_centers,        \* xCoords and yCoords of Step 2, as points
    mdb_models,            \* mdb.models: the name and the number of parts of every model
    face_call              \* the pairing of the two faces of one axis (Step 10)

\* the variables of a call of classifyCellsImproved
classify_vars == <<all_cells, classification>>

\* the variables of a call of pairBoundaryNodes3D
pair_vars == <<slave_nodes, master_nodes, pair_args, master_pool, paired_nodes,
               s_next>>

\* the variables of the script around the placement
script_vars == <<coords_in, circle_centers, mdb_models, face_call>>

vars == <<pc, cfg, fiberCount, seeded_coords, attempt, seeding_count_actual,
          coords, iter_num, fiber_centers, error, fatal_info, verification,
          all_fiber_centers, stages, n_draws, classify_vars, pair_vars,
          script_vars>>

----------------------------------------------------------------------------
(* Bounds of the model *)

\* number of values per axis the random source is sampled at
GridN == 3
\* rsa_max_attempts (500 in the source, line 1077), scaled
rsa_max_attempts == 2
\* max_iterations of the relaxer (2000 in the source, line 347), scaled
max_iterations == 3
\* max_correction_iter (50000 in the source, line 436), scaled
max_correction_iter == 2
\* resolution of a force component: 1/ForceScale of a grid unit
ForceScale == 40

(* Program constants *)

\* math.pi as the fraction PiNum / PiDen
PiNum == 355
PiDen == 113
\* movement_factor = 0.5 = 1 / MovementFactorDen
MovementFactorDen == 2
\* anchor_damping_factor = 0.05 = 1 / AnchorDampingDen
AnchorDampingDen == 20
\* the 1e-8 added to a correction move: the smallest step of the grid
CorrectionEps == 1
\* the convergence threshold 1e-6 * fiberRadius = fiberRadius / ConvergenceDen
ConvergenceDen == 1000000
\* the de-duplication tolerance 1e-6 = 1 / ToleranceDen of a unit
ToleranceDen == 1000000

----------------------------------------------------------------------------
(* Arithmetic *)

Abs(a) == IF a < 0 THEN -a ELSE a

\* a / b rounded to the nearest integer, halves away from zero (b > 0)
RoundDiv(a, b) ==
    IF a >= 0 THEN (2 * a + b) \div (2 * b)
    ELSE -((2 * (-a) + b) \div (2 * b))

\* floor of the square root
ISqrt(n) == CHOOSE r \in 0..(n + 1) : r * r <= n /\ (r + 1) * (r + 1) > n

\* math.sqrt, rounded to the nearest unit
Sqrt(n) == LET r == ISqrt(n) IN IF n - r * r > r THEN r + 1 ELSE r

\* x += num/den ; x %= extent   (lines 395-400, 471-479), in floating point.
\* The grid unit is the spacing of the floats at the magnitude of extent;
\* near zero the floats are finer.  The sum is rounded to the grid, except
\* that a negative sum smaller than half a unit stays a tiny negative float:
\* Python's % then computes fmod(x, extent) + extent, and that sum rounds to
\* extent itself (as -1e-18 % 0.057 == 0.057).
MoveAndWrap(x, num, den, extent) ==
    LET s == x * den + num
        q == RoundDiv(s, den)
    IN  IF s < 0 /\ q = 0 THEN extent ELSE q % extent

\* variant: the difference taken as it is, without the periodic correction
WrapDelta_NoWrap(d, extent, half2) == d

\* the periodic correction of a coordinate difference (lines 362-365,
\* 447-450, 494-497, 579-586); half2.pos and half2.neg are twice the values
\* of rveSize[k] / 2 and -rveSize[k] / 2 the code compares with
WrapDelta(d, extent, half2) ==
    LET d1 == IF 2 * d > half2.pos THEN d - extent ELSE d
    IN  IF 2 * d1 < half2.neg THEN d1 + extent ELSE d1

\* rveSize[k] / 2 and -rveSize[k] / 2 of the relaxer, the corrector and the
\* seeding (lines 362-365, 447-450, 494-497, 1108-1109), doubled.  The
\* script runs under Python 2.7, where the quotient of two integers is the
\* floor of their quotient: int_unit is the grid length of the integer 1
\* when the entries of rveSize are Python integers, and 0 when they are
\* floats.
HalfSize2(conf) ==
    [k \in 1..2 |->
        IF conf.int_unit = 0
        THEN [pos |-> conf.rveSize[k], neg |-> -conf.rveSize[k]]
        ELSE [pos |-> 2 * ((conf.rveSize[k] \div conf.int_unit) \div 2) * conf.int_unit,
              neg |-> 2 * ((-(conf.rveSize[k] \div conf.int_unit)) \div 2) * conf.int_unit]]

\* rveSize[k] / 2.0 and -rveSize[k] / 2.0 of the verifier (lines 579-586),
\* doubled
FloatHalfSize2(rveSize) ==
    [k \in 1..2 |-> [pos |-> rveSize[k], neg |-> -rveSize[k]]]

PairDelta(c, i, j, rveSize, half2) ==
    <<WrapDelta(c[j][1] - c[i][1], rveSize[1], half2[1]),
      WrapDelta(c[j][2] - c[i][2], rveSize[2], half2[2])>>

DistSq(c, i, j, rveSize, half2) ==
    LET d == PairDelta(c, i, j, rveSize, half2) IN d[1] * d[1] + d[2] * d[2]

\* the pairs (i, j), i < j, of the nested loops over range(fiberCount)
Pairs(n) == {p \in (1..n) \X (1..n) : p[1] < p[2]}

\* row-major order of the nested loops
Before(p, q) == p[1] < q[1] \/ (p[1] = q[1] /\ p[2] < q[2])

----------------------------------------------------------------------------
(* Step 1 of create3DRVEModel: parameters *)

rveArea(c) == c.rveSize[1] * c.rveSize[2]

\* variant: the single-fiber test never fires
SingleFiberTooLarge_Never(c) == FALSE

\* fiberArea >= rveArea, with fiberArea = pi * R^2
SingleFiberTooLarge(c) ==
    PiNum * c.fiberRadius * c.fiberRadius >= PiDen * rveArea(c)

\* int(round(target_Vf * rveArea / fiberArea))
FiberCountOf(c) ==
    RoundDiv(c.target_Vf * rveArea(c) * PiDen,
             100 * PiNum * c.fiberRadius * c.fiberRadius)

\* minDistanceFactor * fiberRadius (the configurations make it a whole number)
minDistance(c) == (c.minDistanceFactor * c.fiberRadius) \div 100

\* int(fiberCount * rsa_seeding_ratio)
seeding_count(c, n) == (n * c.rsa_seeding_ratio) \div 100

\* rd.uniform(0, extent): 0 + extent * random(), random() in [0, 1)
Uniform(extent) == {(k * extent) \div GridN : k \in 0..(GridN - 1)}

----------------------------------------------------------------------------
(* The configurations create3DRVEModel is run with *)

Configs ==
    { \* three fibers in a domain six radii wide
      [rveSize |-> <<120, 120>>, fiberRadius |-> 20, target_Vf |-> 25,
       minDistanceFactor |-> 205, rsa_seeding_ratio |-> 90,
       export_coordinates |-> TRUE,
       int_unit |-> 0],
      \* two fibers, no CSV export
      [rveSize |-> <<120, 100>>, fiberRadius |-> 20, target_Vf |-> 20,
       minDistanceFactor |-> 200, rsa_seeding_ratio |-> 50,
       export_coordinates |-> FALSE,
       int_unit |-> 0],
      \* one fiber
      [rveSize |-> <<80, 80>>, fiberRadius |-> 20, target_Vf |-> 20,
       minDistanceFactor |-> 205, rsa_seeding_ratio |-> 0,
       export_coordinates |-> TRUE,
       int_unit |-> 0],
      \* the fibers together cover more than the domain
      [rveSize |-> <<60, 60>>, fiberRadius |-> 20, target_Vf |-> 90,
       minDistanceFactor |-> 205, rsa_seeding_ratio |-> 90,
       export_coordinates |-> TRUE,
       int_unit |-> 0],
      \* one fiber alone is larger than the domain
      [rveSize |-> <<30, 30>>, fiberRadius |-> 20, target_Vf |-> 90,
       minDistanceFactor |-> 205, rsa_seeding_ratio |-> 90,
       export_coordinates |-> TRUE,
       int_unit |-> 0],
      \* one fiber alone is larger than the domain, low volume fraction
      [rveSize |-> <<30, 30>>, fiberRadius |-> 20, target_Vf |-> 25,
       minDistanceFactor |-> 205, rsa_seeding_ratio |-> 90,
       export_coordinates |-> TRUE,
       int_unit |-> 0],
      \* rveSize = [1, 1, 1] given as integers: two fibers, both anchors
      [rveSize |-> <<120, 120>>, fiberRadius |-> 20, target_Vf |-> 17,
       minDistanceFactor |-> 205, rsa_seeding_ratio |-> 100,
       export_coordinates |-> TRUE,
       int_unit |-> 120] }

\* classifyCellsImproved has not been called
NoClassification == [outcome |-> "none", fiber_cells_list |-> <<>>,
                     matrix_cells_list |-> <<>>, queried |-> <<>>]

NoClassifyCall ==
    /\ all_cells = <<>>
    /\ classification = NoClassification

\* lines 1963-1964: the names of the model under construction and of the
\* finished model
tempModelName == "3D-RVE-Vf_TEMP"
targetModelName == "3D-RVE-Vf"

\* mdb.models of a new session: the empty default model
SessionModels == {[name |-> "Model-1", parts |-> 0]}

\* no pair of faces is being paired
NoFaceCall == [axis |-> "none", tolerance |-> 0,
               nodes_low |-> <<>>, nodes_high |-> <<>>,
               swapped |-> FALSE, pairs |-> <<>>,
               unpaired_low |-> 0, unpaired_high |-> 0]

\* a function is called on its own, outside the script
NoScriptCall ==
    /\ coords_in = <<>>
    /\ circle_centers = <<>>
    /\ mdb_models = {}
    /\ face_call = NoFaceCall

\* pairBoundaryNodes3D has not been called
NoPairCall ==
    /\ slave_nodes = <<>>
    /\ master_nodes = <<>>
    /\ pair_args = [tolerance |-> 0, coord_indices |-> <<1, 2>>]
    /\ master_pool = <<>>
    /\ paired_nodes = <<>>
    /\ s_next = 0

NoFatal == [pairs |-> 0, fibers |-> 0]
NoVerification == [ran |-> FALSE, passed |-> TRUE, total_pairs |-> 0,
                   min_distance_sq |-> -1, violations |-> <<>>]

Init ==
    /\ pc = "start"
    /\ cfg \in Configs
    /\ fiberCount = 0
    /\ seeded_coords = <<>>
    /\ attempt = 0
    /\ seeding_count_actual = 0
    /\ coords = <<>>
    /\ iter_num = 0
    /\ fiber_centers = <<>>
    /\ error = "none"
    /\ fatal_info = NoFatal
    /\ verification = NoVerification
    /\ all_fiber_centers = <<>>
    /\ stages = <<>>
    /\ n_draws = 0
    /\ coords_in = <<>>
    /\ circle_centers = <<>>
    /\ mdb_models = SessionModels
    /\ face_call = NoFaceCall
    /\ NoClassifyCall
    /\ NoPairCall

\* lines 1072-1094: the fiber count and the branch on it
Configure ==
    /\ pc = "start"
    /\ fiberCount' = FiberCountOf(cfg)
    /\ IF FiberCountOf(cfg) = 0
       THEN pc' = "export" /\ error' = error
       ELSE IF SingleFiberTooLarge(cfg)
            THEN pc' = "aborted" /\ error' = "invalid_config"
            ELSE pc' = "seed" /\ error' = error
    /\ UNCHANGED <<classify_vars, pair_vars, script_vars>>
    /\ UNCHANGED <<cfg, seeded_coords, attempt, seeding_count_actual, coords,
                   iter_num, fiber_centers, fatal_info, verification,
                   all_fiber_centers, stages, n_draws>>

\* variant: the distance to an anchor taken without the periodic wrap
is_too_close_NoWrap(xt, yt, seeded, c) ==
    \E k \in 1..Len(seeded) :
        LET dx == Abs(xt - seeded[k][1])
            dy == Abs(yt - seeded[k][2])
        IN  dx * dx + dy * dy < minDistance(c) * minDistance(c)

\* lines 1104-1112: the candidate is closer than minDistance to an anchor
is_too_close(xt, yt, seeded, c) ==
    \E k \in 1..Len(seeded) :
        LET dx0 == Abs(xt - seeded[k][1])
            dy0 == Abs(yt - seeded[k][2])
            dx == IF 2 * dx0 > HalfSize2(c)[1].pos THEN c.rveSize[1] - dx0 ELSE dx0
            dy == IF 2 * dy0 > HalfSize2(c)[2].pos THEN c.rveSize[2] - dy0 ELSE dy0
        IN  dx * dx + dy * dy < minDistance(c) * minDistance(c)

\* lines 1099-1117: one attempt to place the next anchor
SeedAttempt ==
    /\ pc = "seed"
    /\ Len(seeded_coords) < seeding_count(cfg, fiberCount)
    /\ attempt < rsa_max_attempts
    /\ \E xt \in Uniform(cfg.rveSize[1]), yt \in Uniform(cfg.rveSize[2]) :
          IF is_too_close(xt, yt, seeded_coords, cfg)
          THEN /\ attempt' = attempt + 1
               /\ seeded_coords' = seeded_coords
          ELSE /\ attempt' = 0
               /\ seeded_coords' = Append(seeded_coords, <<xt, yt>>)
    /\ n_draws' = n_draws + 1
    /\ UNCHANGED <<classify_vars, pair_vars, script_vars>>
    /\ UNCHANGED <<pc, cfg, fiberCount, seeding_count_actual, coords, iter_num,
                   fiber_centers, error, fatal_info, verification,
                   all_fiber_centers, stages>>

\* lines 1119-1129: the seeding loop ends, all anchors placed or congested
SeedEnd ==
    /\ pc = "seed"
    /\ \/ Len(seeded_coords) = seeding_count(cfg, fiberCount)
       \/ attempt = rsa_max_attempts
    /\ seeding_count_actual' = Len(seeded_coords)
    /\ coords' = seeded_coords
    /\ pc' = "fill"
    /\ UNCHANGED <<classify_vars, pair_vars, script_vars>>
    /\ UNCHANGED <<cfg, fiberCount, seeded_coords, attempt, iter_num,
                   fiber_centers, error, fatal_info, verification,
                   all_fiber_centers, stages, n_draws>>

\* variant: the fluid fibers counted from the planned number of anchors
remaining_Planned(n, placed) == n - seeding_count(cfg, n)

\* line 1127: the number of fluid fibers
remaining(n, placed) == n - placed

\* lines 1131-1133: one fluid fiber, placed without any distance check
FillPoint ==
    /\ pc = "fill"
    /\ Len(coords) - seeding_count_actual < remaining(fiberCount, seeding_count_actual)
    /\ \E xt \in Uniform(cfg.rveSize[1]), yt \in Uniform(cfg.rveSize[2]) :
          coords' = Append(coords, <<xt, yt>>)
    /\ n_draws' = n_draws + 1
    /\ UNCHANGED <<classify_vars, pair_vars, script_vars>>
    /\ UNCHANGED <<pc, cfg, fiberCount, seeded_coords, attempt,
                   seeding_count_actual, iter_num, fiber_centers, error,
                   fatal_info, verification, all_fiber_centers, stages>>

\* lines 1135-1139: the fill loop is over, _relax_coords_anchored is called
StartRelax ==
    /\ pc = "fill"
    /\ Len(coords) - seeding_count_actual >= remaining(fiberCount, seeding_count_actual)
    /\ pc' = "relax"
    /\ iter_num' = 0
    /\ UNCHANGED <<classify_vars, pair_vars, script_vars>>
    /\ UNCHANGED <<cfg, fiberCount, seeded_coords, attempt,
                   seeding_count_actual, coords, fiber_centers, error,
                   fatal_info, verification, all_fiber_centers, stages, n_draws>>

----------------------------------------------------------------------------
(* _relax_coords_anchored, lines 326-415 *)

RECURSIVE SumSeq(_)
SumSeq(s) == IF s = <<>> THEN 0 ELSE Head(s) + SumSeq(Tail(s))

\* lines 358-375: the force the pair (i, j) puts on j, in 1/ForceScale units;
\* i receives the opposite.  For coincident points dist is 1e-9 and
\* dx / dist = 0 / 1e-9 = 0.
PairForce(c, i, j, conf) ==
    LET d == PairDelta(c, i, j, conf.rveSize, HalfSize2(conf))
        dist_sq == d[1] * d[1] + d[2] * d[2]
    IN  IF dist_sq < minDistance(conf) * minDistance(conf) /\ dist_sq > 0
        THEN LET dist == Sqrt(dist_sq)
                 overlap == minDistance(conf) - dist
             IN  <<RoundDiv(overlap * d[1] * ForceScale, dist),
                   RoundDiv(overlap * d[2] * ForceScale, dist)>>
        ELSE <<0, 0>>

\* lines 377-380: net_forces[k] after the double loop
NetForce(c, k, n, conf) ==
    LET part(m, ax) == IF m < k THEN PairForce(c, m, k, conf)[ax]
                       ELSE IF m > k THEN -PairForce(c, k, m, conf)[ax]
                       ELSE 0
    IN  <<SumSeq([m \in 1..n |-> part(m, 1)]), SumSeq([m \in 1..n |-> part(m, 2)])>>

\* variant: the anchors are the planned number int(fiberCount * rsa_seeding_ratio)
MoveDen_PlannedAnchors(k, seeded) ==
    IF k <= seeding_count(cfg, fiberCount)
    THEN MovementFactorDen * AnchorDampingDen * ForceScale
    ELSE MovementFactorDen * ForceScale

\* lines 387-393: the move of point k is net force / MoveDen
MoveDen(k, seeded) ==
    IF k <= seeded THEN MovementFactorDen * AnchorDampingDen * ForceScale
    ELSE MovementFactorDen * ForceScale

\* lines 402-410: move_x ** 2 + move_y ** 2 < (1e-6 * fiberRadius) ** 2
\* for a move of (nx, ny) / den, decided without forming the large products
MovementBelowThreshold(nx, ny, den, radius) ==
    LET s == nx * nx + ny * ny
        a == ISqrt(s)
        t == radius * den
    IN  IF a * a = s THEN a <= (t - 1) \div ConvergenceDen
        ELSE IF a >= (t + ConvergenceDen - 1) \div ConvergenceDen THEN FALSE
        ELSE IF a + 1 <= t \div ConvergenceDen THEN TRUE
        ELSE s * ConvergenceDen * ConvergenceDen < t * t

\* lines 386-400: every point moved and wrapped
RelaxMove(c, net, seeded, conf) ==
    [k \in 1..Len(c) |->
        <<MoveAndWrap(c[k][1], net[k][1], MoveDen(k, seeded), conf.rveSize[1]),
          MoveAndWrap(c[k][2], net[k][2], MoveDen(k, seeded), conf.rveSize[2])>>]

\* lines 352-412: one iteration of the relaxation loop
RelaxIter ==
    /\ pc = "relax"
    /\ iter_num < max_iterations
    /\ LET net == [k \in 1..fiberCount |-> NetForce(coords, k, fiberCount, cfg)]
           stable == \A k \in 1..fiberCount : net[k] = <<0, 0>>
           converged == \A k \in 1..fiberCount :
                           MovementBelowThreshold(net[k][1], net[k][2],
                               MoveDen(k, seeding_count_actual), cfg.fiberRadius)
       IN  IF stable
           THEN /\ coords' = coords
                /\ pc' = "correct"
                /\ iter_num' = 0
           ELSE /\ coords' = RelaxMove(coords, net, seeding_count_actual, cfg)
                /\ IF converged
                   THEN pc' = "correct" /\ iter_num' = 0
                   ELSE pc' = pc /\ iter_num' = iter_num + 1
    /\ coords_in' = IF pc' = "correct" THEN coords' ELSE coords_in
    /\ UNCHANGED <<classify_vars, pair_vars, circle_centers, mdb_models, face_call>>
    /\ UNCHANGED <<cfg, fiberCount, seeded_coords, attempt,
                   seeding_count_actual, fiber_centers, error, fatal_info,
                   verification, all_fiber_centers, stages, n_draws>>

\* lines 414-415: the iteration cap is reached
RelaxCap ==
    /\ pc = "relax"
    /\ iter_num = max_iterations
    /\ pc' = "correct"
    /\ iter_num' = 0
    /\ coords_in' = coords
    /\ UNCHANGED <<classify_vars, pair_vars, circle_centers, mdb_models, face_call>>
    /\ UNCHANGED <<cfg, fiberCount, seeded_coords, attempt,
                   seeding_count_actual, coords, fiber_centers, error,
                   fatal_info, verification, all_fiber_centers, stages, n_draws>>

----------------------------------------------------------------------------
(* _final_check_and_enforce, lines 418-520 *)

\* lines 439-456: the first pair, in row-major order, of least dist_sq
WorstOffenders(c, n, rveSize, half2) ==
    CHOOSE p \in Pairs(n) :
        \A q \in Pairs(n) :
            \/ DistSq(c, p[1], p[2], rveSize, half2) < DistSq(c, q[1], q[2], rveSize, half2)
            \/ /\ DistSq(c, p[1], p[2], rveSize, half2) = DistSq(c, q[1], q[2], rveSize, half2)
               /\ (p = q \/ Before(p, q))

\* variant: every point outside the pair is shifted by one unit
PushApart_ShiftOthers(c, w, conf) ==
    LET i == w[1]
        j == w[2]
        d == PairDelta(c, i, j, conf.rveSize, HalfSize2(conf))
        m == d[1] * d[1] + d[2] * d[2]
        dist == IF m > 0 THEN Sqrt(m) ELSE 1
        overlap == minDistance(conf) - dist
        num(ax) == IF m > 0 THEN (overlap + 2 * CorrectionEps) * d[ax] ELSE 0
        den == 2 * dist
    IN  [k \in 1..Len(c) |->
            IF k = i
            THEN <<MoveAndWrap(c[k][1], -num(1), den, conf.rveSize[1]),
                   MoveAndWrap(c[k][2], -num(2), den, conf.rveSize[2])>>
            ELSE IF k = j
            THEN <<MoveAndWrap(c[k][1], num(1), den, conf.rveSize[1]),
                   MoveAndWrap(c[k][2], num(2), den, conf.rveSize[2])>>
            ELSE <<(c[k][1] + 1) % conf.rveSize[1], c[k][2]>>]

\* lines 462-479: the pair w pushed apart and wrapped.  The move of each
\* point is (overlap / 2 + 1e-8) * (dx / dist); for coincident points dist is
\* 1e-9 and dx / dist = 0.
PushApart(c, w, conf) ==
    LET i == w[1]
        j == w[2]
        d == PairDelta(c, i, j, conf.rveSize, HalfSize2(conf))
        m == d[1] * d[1] + d[2] * d[2]
        dist == IF m > 0 THEN Sqrt(m) ELSE 1
        overlap == minDistance(conf) - dist
        num(ax) == IF m > 0 THEN (overlap + 2 * CorrectionEps) * d[ax] ELSE 0
        den == 2 * dist
    IN  [k \in 1..Len(c) |->
            IF k = i
            THEN <<MoveAndWrap(c[k][1], -num(1), den, conf.rveSize[1]),
                   MoveAndWrap(c[k][2], -num(2), den, conf.rveSize[2])>>
            ELSE IF k = j
            THEN <<MoveAndWrap(c[k][1], num(1), den, conf.rveSize[1]),
                   MoveAndWrap(c[k][2], num(2), den, conf.rveSize[2])>>
            ELSE c[k]]

\* line 458: min_dist_sq_found >= min_dist_sq (infinite when there is no pair)
CheckPassed(c, n, conf) ==
    \/ Pairs(n) = {}
    \/ LET w == WorstOffenders(c, n, conf.rveSize, HalfSize2(conf))
       IN  DistSq(c, w[1], w[2], conf.rveSize, HalfSize2(conf))
               >= minDistance(conf) * minDistance(conf)

\* lines 438-479: one iteration of the correction loop
CorrectIter ==
    /\ pc = "correct"
    /\ iter_num < max_correction_iter
    /\ IF CheckPassed(coords, fiberCount, cfg)
       THEN /\ fiber_centers' = coords
            /\ pc' = "export"
            /\ UNCHANGED <<coords, iter_num>>
       ELSE /\ coords' = PushApart(coords,
                               WorstOffenders(coords, fiberCount, cfg.rveSize,
                                              HalfSize2(cfg)), cfg)
            /\ iter_num' = iter_num + 1
            /\ UNCHANGED <<pc, fiber_centers>>
    /\ UNCHANGED <<classify_vars, pair_vars, script_vars>>
    /\ UNCHANGED <<cfg, fiberCount, seeded_coords, attempt,
                   seeding_count_actual, error, fatal_info, verification,
                   all_fiber_centers, stages, n_draws>>

\* variant: only the first fiber of a violating pair is recorded
RECURSIVE FinalScan_FirstFiberOnly(_, _, _, _)
FinalScan_FirstFiberOnly(c, conf, todo, acc) ==
    IF todo = {} THEN acc
    ELSE LET p == CHOOSE x \in todo : \A y \in todo : x = y \/ Before(x, y)
             dsq == DistSq(c, p[1], p[2], conf.rveSize, HalfSize2(conf))
             bad == dsq < minDistance(conf) * minDistance(conf)
         IN  FinalScan_FirstFiberOnly(c, conf, todo \ {p},
                 [final_min_dist_sq |->
                      IF acc.final_min_dist_sq < 0 \/ dsq < acc.final_min_dist_sq
                      THEN dsq ELSE acc.final_min_dist_sq,
                  violating_pairs |-> acc.violating_pairs + (IF bad THEN 1 ELSE 0),
                  violating_fibers |->
                      IF bad THEN acc.violating_fibers \cup {p[1]}
                      ELSE acc.violating_fibers])

\* lines 486-506: the final scan, accumulated pair by pair in loop order
RECURSIVE FinalScan(_, _, _, _)
FinalScan(c, conf, todo, acc) ==
    IF todo = {} THEN acc
    ELSE LET p == CHOOSE x \in todo : \A y \in todo : x = y \/ Before(x, y)
             dsq == DistSq(c, p[1], p[2], conf.rveSize, HalfSize2(conf))
             bad == dsq < minDistance(conf) * minDistance(conf)
         IN  FinalScan(c, conf, todo \ {p},
                 [final_min_dist_sq |->
                      IF acc.final_min_dist_sq < 0 \/ dsq < acc.final_min_dist_sq
                      THEN dsq ELSE acc.final_min_dist_sq,
                  violating_pairs |-> acc.violating_pairs + (IF bad THEN 1 ELSE 0),
                  violating_fibers |->
                      IF bad THEN acc.violating_fibers \cup {p[1], p[2]}
                      ELSE acc.violating_fibers])

\* final_min_dist_sq < 0 stands for float('inf')
ScanStart == [final_min_dist_sq |-> -1, violating_pairs |-> 0, violating_fibers |-> {}]

\* variant: the exception of the corrector is reported and the run goes on
CorrectCap_ContinueAfterFatal ==
    /\ pc = "correct"
    /\ iter_num = max_correction_iter
    /\ LET scan == FinalScan(coords, cfg, Pairs(fiberCount), ScanStart)
       IN  IF /\ scan.final_min_dist_sq >= 0
              /\ scan.final_min_dist_sq < minDistance(cfg) * minDistance(cfg)
           THEN /\ error' = "corrector_fatal"
                /\ fatal_info' = [pairs |-> scan.violating_pairs,
                                  fibers |-> Cardinality(scan.violating_fibers)]
           ELSE UNCHANGED <<error, fatal_info>>
    /\ fiber_centers' = coords
    /\ pc' = "export"
    /\ UNCHANGED <<classify_vars, pair_vars, script_vars>>
    /\ UNCHANGED <<cfg, fiberCount, seeded_coords, attempt,
                   seeding_count_actual, coords, iter_num, verification,
                   all_fiber_centers, stages, n_draws>>

\* lines 485-520 and 1142-1150: the cap is exhausted; after the final scan the
\* function returns the coordinates or raises, and create3DRVEModel catches
\* the exception, prints it and returns
CorrectCap ==
    /\ pc = "correct"
    /\ iter_num = max_correction_iter
    /\ LET scan == FinalScan(coords, cfg, Pairs(fiberCount), ScanStart)
       IN  IF /\ scan.final_min_dist_sq >= 0
              /\ scan.final_min_dist_sq < minDistance(cfg) * minDistance(cfg)
           THEN /\ error' = "corrector_fatal"
                /\ fatal_info' = [pairs |-> scan.violating_pairs,
                                  fibers |-> Cardinality(scan.violating_fibers)]
                /\ pc' = "aborted"
                /\ fiber_centers' = fiber_centers
           ELSE /\ fiber_centers' = coords
                /\ pc' = "export"
                /\ UNCHANGED <<error, fatal_info>>
    /\ UNCHANGED <<classify_vars, pair_vars, script_vars>>
    /\ UNCHANGED <<cfg, fiberCount, seeded_coords, attempt,
                   seeding_count_actual, coords, iter_num, verification,
                   all_fiber_centers, stages, n_draws>>

----------------------------------------------------------------------------
(* verifyMinimumFiberDistance3D, lines 526-683.  A distance is represented *)
(* by its square: distance < minDistance iff its square < minDistance^2.   *)

\* variant: a pair exactly minDistance apart counts as a violation
RECURSIVE VerifyScan_NonStrict(_, _, _, _, _)
VerifyScan_NonStrict(centers, rveSize, min_sq, todo, acc) ==
    IF todo = {} THEN acc
    ELSE LET p == CHOOSE x \in todo : \A y \in todo : x = y \/ Before(x, y)
             dsq == DistSq(centers, p[1], p[2], rveSize, FloatHalfSize2(rveSize))
         IN  VerifyScan_NonStrict(centers, rveSize, min_sq, todo \ {p},
                 [total_pairs |-> acc.total_pairs + 1,
                  min_distance_sq |->
                      IF acc.min_distance_sq < 0 \/ dsq < acc.min_distance_sq
                      THEN dsq ELSE acc.min_distance_sq,
                  max_distance_sq |->
                      IF dsq > acc.max_distance_sq THEN dsq ELSE acc.max_distance_sq,
                  violating_pairs |->
                      IF dsq <= min_sq
                      THEN Append(acc.violating_pairs,
                                  [fiber_i |-> p[1], fiber_j |-> p[2], distance_sq |-> dsq])
                      ELSE acc.violating_pairs])

\* lines 573-605: the double loop, accumulated pair by pair in loop order
RECURSIVE VerifyScan(_, _, _, _, _)
VerifyScan(centers, rveSize, min_sq, todo, acc) ==
    IF todo = {} THEN acc
    ELSE LET p == CHOOSE x \in todo : \A y \in todo : x = y \/ Before(x, y)
             dsq == DistSq(centers, p[1], p[2], rveSize, FloatHalfSize2(rveSize))
         IN  VerifyScan(centers, rveSize, min_sq, todo \ {p},
                 [total_pairs |-> acc.total_pairs + 1,
                  min_distance_sq |->
                      IF acc.min_distance_sq < 0 \/ dsq < acc.min_distance_sq
                      THEN dsq ELSE acc.min_distance_sq,
                  max_distance_sq |->
                      IF dsq > acc.max_distance_sq THEN dsq ELSE acc.max_distance_sq,
                  violating_pairs |->
                      IF dsq < min_sq
                      THEN Append(acc.violating_pairs,
                                  [fiber_i |-> p[1], fiber_j |-> p[2], distance_sq |-> dsq])
                      ELSE acc.violating_pairs])

\* line 642: violating_pairs.sort(key=violation, reverse=True), a stable sort;
\* the larger violation is the smaller distance
RECURSIVE InsertBySeverity(_, _)
InsertBySeverity(sorted, v) ==
    IF sorted = <<>> THEN <<v>>
    ELSE IF v.distance_sq < Head(sorted).distance_sq THEN <<v>> \o sorted
    ELSE <<Head(sorted)>> \o InsertBySeverity(Tail(sorted), v)

RECURSIVE SortBySeverity(_)
SortBySeverity(vs) ==
    IF vs = <<>> THEN <<>>
    ELSE InsertBySeverity(SortBySeverity(SubSeq(vs, 1, Len(vs) - 1)), vs[Len(vs)])

\* the returned (verification_passed, stats); min_distance_sq < 0: no distance computed
verifyMinimumFiberDistance3D(centers, rveSize, fiberRadius, minDistanceFactor) ==
    IF Len(centers) <= 1
    THEN [ran |-> TRUE, passed |-> TRUE, total_pairs |-> 0,
          min_distance_sq |-> -1, violations |-> <<>>]
    ELSE LET md == (minDistanceFactor * fiberRadius) \div 100
             scan == VerifyScan(centers, rveSize, md * md, Pairs(Len(centers)),
                         [total_pairs |-> 0, min_distance_sq |-> -1,
                          max_distance_sq |-> 0, violating_pairs |-> <<>>])
         IN  [ran |-> TRUE,
              passed |-> Len(scan.violating_pairs) = 0,
              total_pairs |-> scan.total_pairs,
              min_distance_sq |-> scan.min_distance_sq,
              violations |-> SortBySeverity(scan.violating_pairs)]

----------------------------------------------------------------------------
(* buildAllFiberCenters3D, lines 689-765 *)

Opt(cond, p) == IF cond THEN <<p>> ELSE <<>>

\* variant: a center exactly one radius from an edge is mirrored too
MirrorsOf_Inclusive(c, rveSize, radius) ==
    LET xt == c[1]
        yt == c[2]
        w == rveSize[1]
        h == rveSize[2]
    IN  <<c>>
        \o Opt(xt <= radius, <<xt + w, yt>>)
        \o Opt(xt >= w - radius, <<xt - w, yt>>)
        \o Opt(yt <= radius, <<xt, yt + h>>)
        \o Opt(yt >= h - radius, <<xt, yt - h>>)

\* variant: the diagonal image is added without the distance to the corner
MirrorsOf_NoCornerTest(c, rveSize, radius) ==
    LET xt == c[1]
        yt == c[2]
        w == rveSize[1]
        h == rveSize[2]
        lo_x == xt < radius
        hi_x == xt > w - radius
        lo_y == yt < radius
        hi_y == yt > h - radius
    IN  <<c>>
        \o Opt(lo_x, <<xt + w, yt>>)
        \o Opt(hi_x, <<xt - w, yt>>)
        \o Opt(lo_y, <<xt, yt + h>>)
        \o Opt(hi_y, <<xt, yt - h>>)
        \o Opt(lo_x /\ lo_y, <<xt + w, yt + h>>)
        \o Opt(lo_x /\ hi_y, <<xt + w, yt - h>>)
        \o Opt(hi_x /\ hi_y, <<xt - w, yt - h>>)
        \o Opt(hi_x /\ lo_y, <<xt - w, yt + h>>)

\* lines 711-750: the original and its periodic images, in the order appended
MirrorsOf(c, rveSize, radius) ==
    LET xt == c[1]
        yt == c[2]
        w == rveSize[1]
        h == rveSize[2]
        lo_x == xt < radius
        hi_x == xt > w - radius
        lo_y == yt < radius
        hi_y == yt > h - radius
    IN  <<c>>
        \o Opt(lo_x, <<xt + w, yt>>)
        \o Opt(hi_x, <<xt - w, yt>>)
        \o Opt(lo_y, <<xt, yt + h>>)
        \o Opt(hi_y, <<xt, yt - h>>)
        \o Opt(lo_x /\ lo_y /\ xt * xt + yt * yt < radius * radius,
               <<xt + w, yt + h>>)
        \o Opt(lo_x /\ hi_y /\ xt * xt + (h - yt) * (h - yt) < radius * radius,
               <<xt + w, yt - h>>)
        \o Opt(hi_x /\ hi_y /\ (w - xt) * (w - xt) + (h - yt) * (h - yt) < radius * radius,
               <<xt - w, yt - h>>)
        \o Opt(hi_x /\ lo_y /\ (w - xt) * (w - xt) + yt * yt < radius * radius,
               <<xt - w, yt + h>>)

RECURSIVE AllMirrors(_, _, _)
AllMirrors(centers, rveSize, radius) ==
    IF centers = <<>> THEN <<>>
    ELSE MirrorsOf(Head(centers), rveSize, radius)
         \o AllMirrors(Tail(centers), rveSize, radius)

\* line 759: both coordinates differ by less than the tolerance
WithinTolerance(a, b) ==
    /\ Abs(a[1] - b[1]) * ToleranceDen < 1
    /\ Abs(a[2] - b[2]) * ToleranceDen < 1

\* variant: every candidate is kept
RECURSIVE Dedupe_KeepAll(_, _)
Dedupe_KeepAll(all, unique) ==
    IF all = <<>> THEN unique
    ELSE Dedupe_KeepAll(Tail(all), Append(unique, Head(all)))

\* lines 753-763: the first occurrence of every point is kept
RECURSIVE Dedupe(_, _)
Dedupe(all, unique) ==
    IF all = <<>> THEN unique
    ELSE Dedupe(Tail(all),
                IF \E k \in 1..Len(unique) : WithinTolerance(Head(all), unique[k])
                THEN unique ELSE Append(unique, Head(all)))

buildAllFiberCenters3D(centers, rveSize, radius) ==
    Dedupe(AllMirrors(centers, rveSize, radius), <<>>)

----------------------------------------------------------------------------
(* create3DRVEModel after the placement, lines 1152-1696 *)

\* tuples in the order of Python's comparison
PointBefore(a, b) == a[1] < b[1] \/ (a[1] = b[1] /\ a[2] < b[2])

\* sorted(list(set(points))), line 1197
RECURSIVE SortedPoints(_)
SortedPoints(points) ==
    IF points = {} THEN <<>>
    ELSE LET first == CHOOSE a \in points :
                          \A b \in points : a = b \/ PointBefore(a, b)
         IN  <<first>> \o SortedPoints(points \ {first})

\* variant: only the images across one edge are added
points_to_add_EdgesOnly(c, rveSize, radius) ==
    LET xt == c[1]
        yt == c[2]
    IN  {c}
        \cup (IF xt < radius THEN {<<xt + rveSize[1], yt>>} ELSE {})
        \cup (IF xt > rveSize[1] - radius THEN {<<xt - rveSize[1], yt>>} ELSE {})
        \cup (IF yt < radius THEN {<<xt, yt + rveSize[2]>>} ELSE {})
        \cup (IF yt > rveSize[2] - radius THEN {<<xt, yt - rveSize[2]>>} ELSE {})

\* lines 1177-1195: points_to_add of the center c
points_to_add(c, rveSize, radius) ==
    LET xt == c[1]
        yt == c[2]
    IN  {c}
        \cup (IF xt < radius THEN {<<xt + rveSize[1], yt>>} ELSE {})
        \cup (IF xt > rveSize[1] - radius THEN {<<xt - rveSize[1], yt>>} ELSE {})
        \cup (IF yt < radius THEN {<<xt, yt + rveSize[2]>>} ELSE {})
        \cup (IF yt > rveSize[2] - radius THEN {<<xt, yt - rveSize[2]>>} ELSE {})
        \cup (IF xt < radius /\ yt > rveSize[2] - radius
              THEN {<<xt + rveSize[1], yt - rveSize[2]>>} ELSE {})
        \cup (IF xt < radius /\ yt < radius
              THEN {<<xt + rveSize[1], yt + rveSize[2]>>} ELSE {})
        \cup (IF xt > rveSize[1] - radius /\ yt > rveSize[2] - radius
              THEN {<<xt - rveSize[1], yt - rveSize[2]>>} ELSE {})
        \cup (IF xt > rveSize[1] - radius /\ yt < radius
              THEN {<<xt - rveSize[1], yt + rveSize[2]>>} ELSE {})

\* lines 1174-1200: the circle centers of all fibers, in the order appended
RECURSIVE Step2Centers(_, _, _)
Step2Centers(centers, rveSize, radius) ==
    IF centers = <<>> THEN <<>>
    ELSE SortedPoints(points_to_add(Head(centers), rveSize, radius))
         \o Step2Centers(Tail(centers), rveSize, radius)

\* the names in mdb.models
ModelNames(models) == {m.name : m \in models}

\* lines 1206-1213 and the parts of Steps 3 to 5: a model of that name is
\* replaced, the default model is deleted when it has no parts
CreateModel(models, modelName) ==
    {m \in models :
        /\ m.name # modelName
        /\ ~(m.name = "Model-1" /\ modelName # "Model-1" /\ m.parts = 0)}
    \cup {[name |-> modelName, parts |-> 1]}

\* lines 1153-1159: the CSV export; exportFiberCentersToCSV catches a failed
\* write and returns None
ExportCSV ==
    /\ pc = "export"
    /\ IF cfg.export_coordinates /\ fiber_centers # <<>>
       THEN \E written \in BOOLEAN :
               stages' = IF written THEN Append(stages, "csv") ELSE stages
       ELSE stages' = stages
    /\ pc' = "verify"
    /\ UNCHANGED <<classify_vars, pair_vars, script_vars>>
    /\ UNCHANGED <<cfg, fiberCount, seeded_coords, attempt,
                   seeding_count_actual, coords, iter_num, fiber_centers,
                   error, fatal_info, verification, all_fiber_centers, n_draws>>

\* lines 1162-1169: the distance verification; a failure raises
VerifyDistance ==
    /\ pc = "verify"
    /\ IF fiber_centers # <<>>
       THEN LET v == verifyMinimumFiberDistance3D(fiber_centers, cfg.rveSize,
                         cfg.fiberRadius, cfg.minDistanceFactor)
            IN  /\ verification' = v
                /\ stages' = Append(stages, "verify")
                /\ IF v.passed
                   THEN pc' = "step2" /\ error' = error
                   ELSE pc' = "raised" /\ error' = "verification_failed"
       ELSE /\ pc' = "step2"
            /\ UNCHANGED <<verification, stages, error>>
    /\ UNCHANGED <<classify_vars, pair_vars, script_vars>>
    /\ UNCHANGED <<cfg, fiberCount, seeded_coords, attempt,
                   seeding_count_actual, coords, iter_num, fiber_centers,
                   fatal_info, all_fiber_centers, n_draws>>

\* lines 1171-1202: Step 2, the circle centers with their periodic images
Step2Mirrors ==
    /\ pc = "step2"
    /\ stages' = Append(stages, "mirror")
    /\ pc' = "geometry"
    /\ circle_centers' = Step2Centers(fiber_centers, cfg.rveSize, cfg.fiberRadius)
    /\ UNCHANGED <<classify_vars, pair_vars, coords_in, mdb_models, face_call>>
    /\ UNCHANGED <<cfg, fiberCount, seeded_coords, attempt,
                   seeding_count_actual, coords, iter_num, fiber_centers,
                   error, fatal_info, verification, all_fiber_centers, n_draws>>

\* lines 1204-1325: Steps 3 to 5, the model and its geometry are created
CreateGeometry ==
    /\ pc = "geometry"
    /\ stages' = Append(stages, "model")
    /\ pc' = "sets"
    /\ mdb_models' = CreateModel(mdb_models, tempModelName)
    /\ UNCHANGED <<classify_vars, pair_vars, coords_in, circle_centers, face_call>>
    /\ UNCHANGED <<cfg, fiberCount, seeded_coords, attempt,
                   seeding_count_actual, coords, iter_num, fiber_centers,
                   error, fatal_info, verification, all_fiber_centers, n_draws>>

\* lines 1327-1350: Step 6; the cells are classified when the part has more
\* than one cell and there are fibers
ClassifyCells ==
    /\ pc = "sets"
    /\ \E several_cells \in BOOLEAN :
          IF several_cells /\ fiber_centers # <<>>
          THEN /\ all_fiber_centers' =
                      buildAllFiberCenters3D(fiber_centers, cfg.rveSize, cfg.fiberRadius)
               /\ stages' = Append(stages, "classify")
          ELSE UNCHANGED <<all_fiber_centers, stages>>
    /\ pc' = "mesh"
    /\ UNCHANGED <<classify_vars, pair_vars, script_vars>>
    /\ UNCHANGED <<cfg, fiberCount, seeded_coords, attempt,
                   seeding_count_actual, coords, iter_num, fiber_centers,
                   error, fatal_info, verification, n_draws>>

\* lines 1497-1527: Steps 7 and 8; without elements the function returns
GenerateMesh ==
    /\ pc = "mesh"
    /\ \E meshed \in BOOLEAN :
          IF meshed
          THEN pc' = "pbc" /\ error' = error
          ELSE pc' = "returned" /\ error' = "no_mesh"
    /\ UNCHANGED <<classify_vars, pair_vars, script_vars>>
    /\ UNCHANGED <<cfg, fiberCount, seeded_coords, attempt,
                   seeding_count_actual, coords, iter_num, fiber_centers,
                   fatal_info, verification, all_fiber_centers, stages, n_draws>>

\* lines 1531-1696: Steps 9 to 11, the boundary nodes are paired
PairBoundaries ==
    /\ pc = "pbc"
    /\ stages' = Append(stages, "pair")
    /\ pc' = "done"
    /\ UNCHANGED <<classify_vars, pair_vars, script_vars>>
    /\ UNCHANGED <<cfg, fiberCount, seeded_coords, attempt,
                   seeding_count_actual, coords, iter_num, fiber_centers,
                   error, fatal_info, verification, all_fiber_centers, n_draws>>

Next ==
    \/ Configure
    \/ SeedAttempt
    \/ SeedEnd
    \/ FillPoint
    \/ StartRelax
    \/ RelaxIter
    \/ RelaxCap
    \/ CorrectIter
    \/ CorrectCap
    \/ ExportCSV
    \/ VerifyDistance
    \/ Step2Mirrors
    \/ CreateGeometry
    \/ ClassifyCells
    \/ GenerateMesh
    \/ PairBoundaries

Spec == Init /\ [][Next]_vars

----------------------------------------------------------------------------
(* verifyMinimumFiberDistance3D on its own: the function applied to center *)
(* lists of every length up to MaxCenters                                   *)

\* the longest center list the verifier is applied to
MaxCenters == 3

VerifierConfig ==
    [rveSize |-> <<120, 100>>, fiberRadius |-> 20, target_Vf |-> 0,
     minDistanceFactor |-> 205, rsa_seeding_ratio |-> 0,
     export_coordinates |-> FALSE]

\* centers of the domain; (0, 0) and (0, 41) are exactly minDistance apart
VerifierPoints == {0, 45, 100} \X {0, 41, 80}

SeqsUpTo(S, n) == UNION {[1..m -> S] : m \in 0..n}

InitVerifier ==
    /\ pc = "call_verify"
    /\ cfg = VerifierConfig
    /\ fiber_centers \in SeqsUpTo(VerifierPoints, MaxCenters)
    /\ fiberCount = Len(fiber_centers)
    /\ seeded_coords = <<>>
    /\ attempt = 0
    /\ seeding_count_actual = 0
    /\ coords = <<>>
    /\ iter_num = 0
    /\ error = "none"
    /\ fatal_info = NoFatal
    /\ verification = NoVerification
    /\ all_fiber_centers = <<>>
    /\ stages = <<>>
    /\ n_draws = 0
    /\ NoScriptCall
    /\ NoClassifyCall
    /\ NoPairCall

\* a call of verifyMinimumFiberDistance3D(fiber_centers, rveSize, fiberRadius,
\* minDistanceFactor)
VerifyCall ==
    /\ pc = "call_verify"
    /\ verification' = verifyMinimumFiberDistance3D(fiber_centers, cfg.rveSize,
                           cfg.fiberRadius, cfg.minDistanceFactor)
    /\ pc' = "verified"
    /\ UNCHANGED <<classify_vars, pair_vars, script_vars>>
    /\ UNCHANGED <<cfg, fiberCount, seeded_coords, attempt,
                   seeding_count_actual, coords, iter_num, fiber_centers,
                   error, fatal_info, all_fiber_centers, stages, n_draws>>

NextVerifier == VerifyCall

SpecVerifier == InitVerifier /\ [][NextVerifier]_vars

----------------------------------------------------------------------------
(* buildAllFiberCenters3D on its own: the function applied to one or two   *)
(* centers at, near and away from the edges of the domain                   *)

\* the longest center list the mirror builder is applied to
MaxMirrorCenters == 2

MirrorConfig ==
    [rveSize |-> <<200, 200>>, fiberRadius |-> 10, target_Vf |-> 0,
     minDistanceFactor |-> 205, rsa_seeding_ratio |-> 0,
     export_coordinates |-> FALSE]

\* 0, 1, 9: closer than the radius to the low edge, and (9, 9) farther than
\* the radius from the corner; 10 and 190: exactly one radius from an edge;
\* 199: closer than the radius to the high edge
MirrorCoordinates == {0, 1, 9, 10, 100, 190, 199}

InitMirror ==
    /\ pc = "call_mirror"
    /\ cfg = MirrorConfig
    /\ fiber_centers \in SeqsUpTo(MirrorCoordinates \X MirrorCoordinates,
                                  MaxMirrorCenters) \ {<<>>}
    /\ fiberCount = Len(fiber_centers)
    /\ seeded_coords = <<>>
    /\ attempt = 0
    /\ seeding_count_actual = 0
    /\ coords = <<>>
    /\ iter_num = 0
    /\ error = "none"
    /\ fatal_info = NoFatal
    /\ verification = NoVerification
    /\ all_fiber_centers = <<>>
    /\ stages = <<>>
    /\ n_draws = 0
    /\ NoScriptCall
    /\ NoClassifyCall
    /\ NoPairCall

\* a call of buildAllFiberCenters3D(fiber_centers, rveSize, fiberRadius)
MirrorCall ==
    /\ pc = "call_mirror"
    /\ all_fiber_centers' =
           buildAllFiberCenters3D(fiber_centers, cfg.rveSize, cfg.fiberRadius)
    /\ pc' = "mirrored"
    /\ UNCHANGED <<classify_vars, pair_vars, script_vars>>
    /\ UNCHANGED <<cfg, fiberCount, seeded_coords, attempt,
                   seeding_count_actual, coords, iter_num, fiber_centers,
                   error, fatal_info, verification, stages, n_draws>>

NextMirror == MirrorCall

SpecMirror == InitMirror /\ [][NextMirror]_vars

----------------------------------------------------------------------------
(* The two lists of centers with periodic images that create3DRVEModel     *)
(* builds from the accepted centers: the circle centers of Step 2 and the  *)
(* list of buildAllFiberCenters3D used by the classification                *)

\* lines 1161-1169: the center lists that pass the verification
AcceptedCenters ==
    {c \in SeqsUpTo(MirrorCoordinates \X MirrorCoordinates, MaxMirrorCenters) \ {<<>>} :
        verifyMinimumFiberDistance3D(c, MirrorConfig.rveSize,
            MirrorConfig.fiberRadius, MirrorConfig.minDistanceFactor).passed}

InitImages ==
    /\ pc = "step2"
    /\ cfg = MirrorConfig
    /\ fiber_centers \in AcceptedCenters
    /\ fiberCount = Len(fiber_centers)
    /\ seeded_coords = <<>>
    /\ attempt = 0
    /\ seeding_count_actual = 0
    /\ coords = <<>>
    /\ iter_num = 0
    /\ error = "none"
    /\ fatal_info = NoFatal
    /\ verification = NoVerification
    /\ all_fiber_centers = <<>>
    /\ stages = <<>>
    /\ n_draws = 0
    /\ NoScriptCall
    /\ NoClassifyCall
    /\ NoPairCall

\* lines 1171-1202: Step 2 on the accepted centers
Step2Call ==
    /\ pc = "step2"
    /\ circle_centers' = Step2Centers(fiber_centers, cfg.rveSize, cfg.fiberRadius)
    /\ pc' = "call_mirror"
    /\ UNCHANGED <<classify_vars, pair_vars, coords_in, mdb_models, face_call>>
    /\ UNCHANGED <<cfg, fiberCount, seeded_coords, attempt,
                   seeding_count_actual, coords, iter_num, fiber_centers,
                   error, fatal_info, verification, all_fiber_centers, stages,
                   n_draws>>

NextImages == Step2Call \/ MirrorCall

SpecImages == InitImages /\ [][NextImages]_vars

----------------------------------------------------------------------------
(* classifyCellsImproved and getCellCenterFromVertices, lines 768-973.  A  *)
(* cell is what the code can ask of it: its size, what getCentroid() gives *)
(* and what getVertices() gives.  Cells are named by their position in     *)
(* all_cells.                                                              *)

\* sum(coords) / len(coords) for one axis of the listed vertex coordinates
Average(points, ax) ==
    RoundDiv(SumSeq([m \in 1..Len(points) |-> points[m][ax]]), Len(points))

\* lines 781-810: the average of the vertices that have a pointOn; None
\* (found = FALSE) when getVertices fails or no vertex gives a coordinate
getCellCenterFromVertices(cell) ==
    IF cell.vertices.status # "ok" \/ Len(cell.vertices.list) = 0
    THEN [found |-> FALSE, center |-> <<0, 0, 0>>]
    ELSE LET usable == SelectSeq(cell.vertices.list, LAMBDA v : v.pointOn)
             points == [m \in 1..Len(usable) |-> usable[m].coord]
         IN  IF Len(points) > 0
             THEN [found |-> TRUE,
                   center |-> <<Average(points, 1), Average(points, 2),
                                Average(points, 3)>>]
             ELSE [found |-> FALSE, center |-> <<0, 0, 0>>]

\* variant: a cell without any center is given the origin
CellCenter_DefaultOrigin(cell) ==
    IF cell.centroid.status = "ok"
    THEN [found |-> TRUE, center |-> cell.centroid.point, method |-> "centroid"]
    ELSE LET v == getCellCenterFromVertices(cell)
         IN  [found |-> TRUE, center |-> v.center, method |-> "vertices"]

\* lines 895-907: cell_center, with the method that gave it
CellCenter(cell) ==
    IF cell.centroid.status = "ok"
    THEN [found |-> TRUE, center |-> cell.centroid.point, method |-> "centroid"]
    ELSE LET v == getCellCenterFromVertices(cell)
         IN  [found |-> v.found, center |-> v.center, method |-> "vertices"]

\* variant: the cells are left in the order given
SortedCells_InputOrder(cells, n) == [k \in 1..n |-> k]

\* line 843: sorted(all_cells, key=getSize, reverse=True), a stable sort:
\* the positions of the cells by decreasing size, equal sizes in input order
RECURSIVE InsertBySize(_, _, _)
InsertBySize(cells, sorted, k) ==
    IF sorted = <<>> THEN <<k>>
    ELSE IF cells[k].size > cells[Head(sorted)].size THEN <<k>> \o sorted
    ELSE <<Head(sorted)>> \o InsertBySize(cells, Tail(sorted), k)

RECURSIVE SortedCells(_, _)
SortedCells(cells, n) ==
    IF n = 0 THEN <<>>
    ELSE InsertBySize(cells, SortedCells(cells, n - 1), n)

\* variant: a center exactly one radius away counts as inside the fiber
NearFiberCenter_Inclusive(center, centers, radius) ==
    \E m \in 1..Len(centers) :
        (center[1] - centers[m][1]) * (center[1] - centers[m][1])
        + (center[2] - centers[m][2]) * (center[2] - centers[m][2])
            <= radius * radius

\* lines 922-931: min_dist < fiberRadius, the distances taken in the XY plane
NearFiberCenter(center, centers, radius) ==
    \E m \in 1..Len(centers) :
        (center[1] - centers[m][1]) * (center[1] - centers[m][1])
        + (center[2] - centers[m][2]) * (center[2] - centers[m][2])
            < radius * radius

\* lines 893-937: the loop over potential_cells, cell by cell in order; it
\* stops at the first cell without a center
RECURSIVE ClassifyLoop(_, _, _, _, _)
ClassifyLoop(cells, todo, centers, radius, acc) ==
    IF todo = <<>> \/ acc.outcome # "returned" THEN acc
    ELSE LET k == Head(todo)
             cc == CellCenter(cells[k])
             asked == Append(acc.queried, [cell |-> k, method |-> cc.method])
         IN  ClassifyLoop(cells, Tail(todo), centers, radius,
                 IF ~cc.found
                 THEN [acc EXCEPT !.outcome = "no_cell_center", !.queried = asked]
                 ELSE IF NearFiberCenter(cc.center, centers, radius)
                 THEN [acc EXCEPT !.fiber_cells_list = Append(@, k),
                                  !.queried = asked]
                 ELSE [acc EXCEPT !.matrix_cells_list = Append(@, k),
                                  !.queried = asked])

\* variant: fewer cells than fiber centers are classified one by one
CellCountCase_NoAnomaly(n_potential, n_mirrored) ==
    IF n_potential = n_mirrored THEN "equal" ELSE "more"

\* variant: as many cells as fiber centers are classified one by one
CellCountCase_NeverEqual(n_potential, n_mirrored) ==
    IF n_potential < n_mirrored THEN "fewer" ELSE "more"

\* lines 865, 876, 884: len(potential_cells) against len(all_fiber_centers)
CellCountCase(n_potential, n_mirrored) ==
    IF n_potential < n_mirrored THEN "fewer"
    ELSE IF n_potential = n_mirrored THEN "equal"
    ELSE "more"

\* lines 838-973: the outcome is "returned" with the two lists, or one of the
\* exceptions; an exception returns no list.  Lines 948-959 divide by
\* rveVolume and by the volume fraction of the fiber count.
classifyCellsImproved(cells, centers, rveSize, radius, rveVolume) ==
    LET sorted_cells == SortedCells(cells, Len(cells))
        mirrored == buildAllFiberCenters3D(centers, rveSize, radius)
        potential_cells == Tail(sorted_cells)
        start == [outcome |-> "returned", fiber_cells_list |-> <<>>,
                  matrix_cells_list |-> <<Head(sorted_cells)>>, queried |-> <<>>]
        raised(what, asked) ==
            [outcome |-> what, fiber_cells_list |-> <<>>,
             matrix_cells_list |-> <<>>, queried |-> asked]
        case == CellCountCase(Len(potential_cells), Len(mirrored))
        classified ==
            IF case = "equal"
            THEN [start EXCEPT !.fiber_cells_list = potential_cells]
            ELSE ClassifyLoop(cells, potential_cells, mirrored, radius, start)
    IN  IF Len(cells) = 0 THEN raised("index_error", <<>>)
        ELSE IF case = "fewer"
        THEN raised("cell_count_anomaly", <<>>)
        ELSE IF classified.outcome # "returned"
        THEN raised(classified.outcome, classified.queried)
        ELSE IF rveVolume = 0 \/ Len(centers) = 0 \/ radius = 0
        THEN raised("zero_division", classified.queried)
        ELSE classified

\* the most cells classifyCellsImproved is given
MaxCells == 4

ClassifyConfig ==
    [rveSize |-> <<200, 200>>, fiberRadius |-> 10, target_Vf |-> 0,
     minDistanceFactor |-> 205, rsa_seeding_ratio |-> 0,
     export_coordinates |-> FALSE]

Centroid(x, y, z) == [status |-> "ok", point |-> <<x, y, z>>]
NoCentroid(why) == [status |-> why, point |-> <<0, 0, 0>>]
Vertex(x, y, z) == [pointOn |-> TRUE, coord |-> <<x, y, z>>]
NoVertices(why) == [status |-> why, list |-> <<>>]

\* the kinds of cell: the matrix, a fiber, a cell centred exactly one radius
\* from a fiber center, a fragment, a fiber whose center comes from its
\* vertices, two cells without any center (one as large as the matrix), and
\* a cell over the image of a fiber, far away in z
CellKinds ==
    { [size |-> 1000, centroid |-> Centroid(100, 100, 5), vertices |-> NoVertices("ok")],
      [size |-> 30, centroid |-> Centroid(103, 104, 5), vertices |-> NoVertices("ok")],
      [size |-> 30, centroid |-> Centroid(110, 100, 5), vertices |-> NoVertices("raises")],
      [size |-> 5, centroid |-> Centroid(150, 150, 0), vertices |-> NoVertices("ok")],
      [size |-> 30, centroid |-> NoCentroid("unusable"),
       vertices |-> [status |-> "ok",
                     list |-> <<Vertex(95, 100, 0), Vertex(105, 100, 10),
                                [pointOn |-> FALSE, coord |-> <<0, 0, 0>>]>>]],
      [size |-> 5, centroid |-> NoCentroid("raises"),
       vertices |-> [status |-> "ok",
                     list |-> <<[pointOn |-> FALSE, coord |-> <<0, 0, 0>>]>>]],
      [size |-> 1000, centroid |-> NoCentroid("unusable"), vertices |-> NoVertices("raises")],
      [size |-> 30, centroid |-> Centroid(201, 100, 999), vertices |-> NoVertices("ok")] }

\* the fiber centers of the call: one inside, one near the left edge (which
\* has an image), two inside
ClassifyCenters ==
    { <<<<100, 100>>>>, <<<<1, 100>>>>, <<<<100, 100>>, <<150, 50>>>> }

\* the call at lines 1336-1340, made with more than one cell and with fibers
InitClassify ==
    /\ pc = "call_classify"
    /\ cfg = ClassifyConfig
    /\ fiber_centers \in ClassifyCenters
    /\ all_cells \in SeqsUpTo(CellKinds, MaxCells)
    /\ Len(all_cells) > 1
    /\ classification = NoClassification
    /\ fiberCount = Len(fiber_centers)
    /\ seeded_coords = <<>>
    /\ attempt = 0
    /\ seeding_count_actual = 0
    /\ coords = <<>>
    /\ iter_num = 0
    /\ error = "none"
    /\ fatal_info = NoFatal
    /\ verification = NoVerification
    /\ all_fiber_centers = <<>>
    /\ stages = <<>>
    /\ n_draws = 0
    /\ NoScriptCall
    /\ NoPairCall

\* a call of classifyCellsImproved(all_cells, fiber_centers, rveSize,
\* fiberRadius, rveVolume)
ClassifyCall ==
    /\ pc = "call_classify"
    /\ LET r == classifyCellsImproved(all_cells, fiber_centers, cfg.rveSize,
                    cfg.fiberRadius, rveArea(cfg))
       IN  /\ classification' = r
           /\ pc' = IF r.outcome = "returned" THEN "classified"
                    ELSE "classify_raised"
    /\ all_fiber_centers' =
           buildAllFiberCenters3D(fiber_centers, cfg.rveSize, cfg.fiberRadius)
    /\ UNCHANGED <<cfg, fiberCount, seeded_coords, attempt,
                   seeding_count_actual, coords, iter_num, fiber_centers,
                   error, fatal_info, verification, stages, n_draws,
                   all_cells, pair_vars, script_vars>>

NextClassify == ClassifyCall

SpecClassify == InitClassify /\ [][NextClassify]_vars

----------------------------------------------------------------------------
(* pairBoundaryNodes3D, lines 221-264.  A node is named by its position in *)
(* its list and has three coordinates; master_pool lists the positions of  *)
(* the master nodes still available, in their order.  A distance is        *)
(* represented by its square.                                              *)

\* lines 249-252: delta1 ** 2 + delta2 ** 2 for the coordinates coord_indices
PlanarDistSq(s_coord, m_coord, coord_indices) ==
    LET delta1 == Abs(s_coord[coord_indices[1]] - m_coord[coord_indices[1]])
        delta2 == Abs(s_coord[coord_indices[2]] - m_coord[coord_indices[2]])
    IN  delta1 * delta1 + delta2 * delta2

\* variant: the first master node within the tolerance is taken
RECURSIVE BestMatch_FirstWithin(_, _, _, _, _, _)
BestMatch_FirstWithin(s_coord, pool, masters, args, best, min_sq) ==
    IF pool = <<>> THEN best
    ELSE LET d == PlanarDistSq(s_coord, masters[Head(pool)], args.coord_indices)
         IN  IF d < args.tolerance * args.tolerance /\ best = 0
             THEN BestMatch_FirstWithin(s_coord, Tail(pool), masters, args, Head(pool), d)
             ELSE BestMatch_FirstWithin(s_coord, Tail(pool), masters, args, best, min_sq)

\* lines 243-257: the loop over master_pool; best is best_match_node (0 for
\* None) and min_sq the square of min_dist (-1 for infinity)
RECURSIVE BestMatch(_, _, _, _, _, _)
BestMatch(s_coord, pool, masters, args, best, min_sq) ==
    IF pool = <<>> THEN best
    ELSE LET d == PlanarDistSq(s_coord, masters[Head(pool)], args.coord_indices)
         IN  IF d < args.tolerance * args.tolerance /\ (min_sq < 0 \/ d < min_sq)
             THEN BestMatch(s_coord, Tail(pool), masters, args, Head(pool), d)
             ELSE BestMatch(s_coord, Tail(pool), masters, args, best, min_sq)

\* variant: the matched node stays in the pool
RemoveFromPool_Keep(pool, m) == pool

\* line 261: master_pool.remove(best_match_node)
RemoveFromPool(pool, m) == SelectSeq(pool, LAMBDA x : x # m)

\* the longest node list pairBoundaryNodes3D is given
MaxNodes == 3

\* three nodes: in the plane of the coordinates 2 and 3 they are 3, 4 and 5
\* apart, in the plane of the coordinates 1 and 2 they are 3, 5 and 5.83 apart
NodePoints == {<<0, 0, 0>>, <<0, 3, 0>>, <<5, 3, 4>>}

\* tolerance and coord_indices of the call; the Python indices (1, 2) and
\* (0, 1) of lines 1597 and 1611, counted from 1
PairArgs ==
    [tolerance : {4, 6}, coord_indices : {<<2, 3>>, <<1, 2>>}]

\* line 238: the positions 1..n, in order
Positions(n) == [k \in 1..n |-> k]

\* lines 237-241: the call, up to the slave loop
InitPair ==
    /\ pc = "pairing"
    /\ slave_nodes \in SeqsUpTo(NodePoints, MaxNodes)
    /\ master_nodes \in SeqsUpTo(NodePoints, MaxNodes)
    /\ pair_args \in PairArgs
    /\ master_pool = Positions(Len(master_nodes))
    /\ paired_nodes = <<>>
    /\ s_next = 1
    /\ cfg = VerifierConfig
    /\ fiber_centers = <<>>
    /\ fiberCount = 0
    /\ seeded_coords = <<>>
    /\ attempt = 0
    /\ seeding_count_actual = 0
    /\ coords = <<>>
    /\ iter_num = 0
    /\ error = "none"
    /\ fatal_info = NoFatal
    /\ verification = NoVerification
    /\ all_fiber_centers = <<>>
    /\ stages = <<>>
    /\ n_draws = 0
    /\ NoScriptCall
    /\ NoClassifyCall

\* lines 243-261: one pass of the loop over slave_pool
PairStep ==
    /\ pc = "pairing"
    /\ s_next <= Len(slave_nodes)
    /\ LET best_match_node == BestMatch(slave_nodes[s_next], master_pool,
                                        master_nodes, pair_args, 0, -1)
       IN  IF best_match_node # 0
           THEN /\ paired_nodes' = Append(paired_nodes, <<s_next, best_match_node>>)
                /\ master_pool' = RemoveFromPool(master_pool, best_match_node)
           ELSE UNCHANGED <<paired_nodes, master_pool>>
    /\ s_next' = s_next + 1
    /\ UNCHANGED <<pc, cfg, fiberCount, seeded_coords, attempt,
                   seeding_count_actual, coords, iter_num, fiber_centers,
                   error, fatal_info, verification, all_fiber_centers, stages,
                   n_draws, classify_vars, slave_nodes, master_nodes, pair_args,
                   script_vars>>

\* line 264: return paired_nodes
PairReturn ==
    /\ pc = "pairing"
    /\ s_next > Len(slave_nodes)
    /\ pc' = "paired"
    /\ UNCHANGED <<cfg, fiberCount, seeded_coords, attempt,
                   seeding_count_actual, coords, iter_num, fiber_centers,
                   error, fatal_info, verification, all_fiber_centers, stages,
                   n_draws, classify_vars, pair_vars, script_vars>>

NextPair == PairStep \/ PairReturn

SpecPair == InitPair /\ [][NextPair]_vars

----------------------------------------------------------------------------
(* The main block of the script, lines 1963-2055: create3DRVEModel builds  *)
(* the model under a temporary name; afterwards the other models are       *)
(* deleted and the model is renamed                                         *)

\* the configurations the main block is run with: two fibers, and a fiber
\* larger than the domain
MainConfigs ==
    {c \in Configs :
        \/ c.rveSize = <<120, 100>>
        \/ c.rveSize = <<30, 30>> /\ c.target_Vf = 90}

\* mdb.models when the script starts: a new session, a session whose default
\* model is in use, and sessions that hold a model of the target name
MainModelSets ==
    { SessionModels,
      {[name |-> "Model-1", parts |-> 1]},
      {[name |-> "Model-1", parts |-> 0], [name |-> targetModelName, parts |-> 1]},
      {[name |-> targetModelName, parts |-> 1], [name |-> "Model-2", parts |-> 1]} }

\* lines 1963-1975: the script up to the call of create3DRVEModel
InitMain ==
    /\ pc = "start"
    /\ cfg \in MainConfigs
    /\ mdb_models \in MainModelSets
    /\ fiberCount = 0
    /\ seeded_coords = <<>>
    /\ attempt = 0
    /\ seeding_count_actual = 0
    /\ coords = <<>>
    /\ iter_num = 0
    /\ fiber_centers = <<>>
    /\ error = "none"
    /\ fatal_info = NoFatal
    /\ verification = NoVerification
    /\ all_fiber_centers = <<>>
    /\ stages = <<>>
    /\ n_draws = 0
    /\ NoClassifyCall
    /\ NoPairCall
    /\ coords_in = <<>>
    /\ circle_centers = <<>>
    /\ face_call = NoFaceCall

\* lines 2024-2047: when the temporary model exists every other model is
\* deleted and the temporary model gets the target name
PostProcess(models) ==
    IF tempModelName \in ModelNames(models)
    THEN {[name |-> targetModelName, parts |-> m.parts] :
              m \in {x \in models : x.name = tempModelName}}
    ELSE models

\* lines 2023-2055: the main block after create3DRVEModel has returned
MainPostProcess ==
    /\ pc \in {"aborted", "returned", "done"}
    /\ mdb_models' = PostProcess(mdb_models)
    /\ pc' = IF tempModelName \in ModelNames(mdb_models)
             THEN "main_complete" ELSE "main_failed"
    /\ UNCHANGED <<cfg, fiberCount, seeded_coords, attempt,
                   seeding_count_actual, coords, iter_num, fiber_centers,
                   error, fatal_info, verification, all_fiber_centers, stages,
                   n_draws, classify_vars, pair_vars, coords_in,
                   circle_centers, face_call>>

NextMain == Next \/ MainPostProcess

SpecMain == InitMain /\ [][NextMain]_vars

----------------------------------------------------------------------------
(* Step 10 of create3DRVEModel, lines 1595-1621: the nodes of the two      *)
(* faces of one axis are paired, the shorter list being the slave list     *)

\* the coordinates compared for the faces of an axis: (1, 2) for left and
\* right, (0, 2) for front and back, (0, 1) for bottom and top, counted
\* from 1
FaceCoordIndices(axis) ==
    IF axis = "x" THEN <<2, 3>> ELSE IF axis = "y" THEN <<1, 3>> ELSE <<1, 2>>

\* lines 1595, 1602, 1609: the low face is the slave list
LowIsSlave(nodes_low, nodes_high) == Len(nodes_low) <= Len(nodes_high)

\* variant: the pairs are taken as pairBoundaryNodes3D returns them
FacePairs_AsReturned(pairs, swapped) == pairs

\* lines 1596-1600: the pairs as returned, or each pair turned round when
\* the high face was the slave list
FacePairs(pairs, swapped) ==
    IF swapped THEN [k \in 1..Len(pairs) |-> <<pairs[k][2], pairs[k][1]>>]
    ELSE pairs

\* pairing_tolerance of line 1589
FaceTolerances == {4, 6}

\* the node lists of the faces of one axis
InitFaces ==
    /\ pc = "faces"
    /\ \E axis \in {"x", "y", "z"} :
       \E pairing_tolerance \in FaceTolerances :
       \E nodes_low \in SeqsUpTo(NodePoints, MaxNodes) :
       \E nodes_high \in SeqsUpTo(NodePoints, MaxNodes) :
          face_call = [axis |-> axis, tolerance |-> pairing_tolerance,
                       nodes_low |-> nodes_low,
                       nodes_high |-> nodes_high, swapped |-> FALSE,
                       pairs |-> <<>>, unpaired_low |-> 0, unpaired_high |-> 0]
    /\ NoPairCall
    /\ NoClassifyCall
    /\ cfg = VerifierConfig
    /\ fiber_centers = <<>>
    /\ fiberCount = 0
    /\ seeded_coords = <<>>
    /\ attempt = 0
    /\ seeding_count_actual = 0
    /\ coords = <<>>
    /\ iter_num = 0
    /\ error = "none"
    /\ fatal_info = NoFatal
    /\ verification = NoVerification
    /\ all_fiber_centers = <<>>
    /\ stages = <<>>
    /\ n_draws = 0
    /\ coords_in = <<>>
    /\ circle_centers = <<>>
    /\ mdb_models = {}

\* lines 1595-1600 up to the call, and lines 237-241 of the call
FaceCall ==
    /\ pc = "faces"
    /\ LET low_slave == LowIsSlave(face_call.nodes_low, face_call.nodes_high)
           slaves == IF low_slave THEN face_call.nodes_low ELSE face_call.nodes_high
           masters == IF low_slave THEN face_call.nodes_high ELSE face_call.nodes_low
       IN  /\ face_call' = [face_call EXCEPT !.swapped = ~low_slave]
           /\ slave_nodes' = slaves
           /\ master_nodes' = masters
           /\ master_pool' = Positions(Len(masters))
    /\ pair_args' = [tolerance |-> face_call.tolerance,
                     coord_indices |-> FaceCoordIndices(face_call.axis)]
    /\ paired_nodes' = <<>>
    /\ s_next' = 1
    /\ pc' = "pairing"
    /\ UNCHANGED <<cfg, fiberCount, seeded_coords, attempt,
                   seeding_count_actual, coords, iter_num, fiber_centers,
                   error, fatal_info, verification, all_fiber_centers, stages,
                   n_draws, classify_vars, coords_in, circle_centers,
                   mdb_models>>

\* lines 1596-1600 after the call and lines 1616-1621: the pairs of the axis
\* and the numbers of unpaired nodes
FaceResult ==
    /\ pc = "paired"
    /\ face_call.axis # "none"
    /\ LET pairs == FacePairs(paired_nodes, face_call.swapped)
       IN  face_call' = [face_call EXCEPT
                !.pairs = pairs,
                !.unpaired_low = Len(face_call.nodes_low) - Len(pairs),
                !.unpaired_high = Len(face_call.nodes_high) - Len(pairs)]
    /\ pc' = "faces_paired"
    /\ UNCHANGED <<cfg, fiberCount, seeded_coords, attempt,
                   seeding_count_actual, coords, iter_num, fiber_centers,
                   error, fatal_info, verification, all_fiber_centers, stages,
                   n_draws, classify_vars, pair_vars, coords_in,
                   circle_centers, mdb_models>>

NextFaces == FaceCall \/ PairStep \/ PairReturn \/ FaceResult

SpecFaces == InitFaces /\ [][NextFaces]_vars

----------------------------------------------------------------------------
(* _final_check_and_enforce on its own: the function applied to lists of   *)
(* two or three points of the domain, with the sizes given as floats and   *)
(* as integers                                                              *)

\* rveSize = [1.0, 1.0, 1.0] and rveSize = [1, 1, 1]; fiberRadius = 1/6
CorrectorConfigs ==
    { [rveSize |-> <<120, 120>>, fiberRadius |-> 20, target_Vf |-> 0,
       minDistanceFactor |-> 205, rsa_seeding_ratio |-> 0,
       export_coordinates |-> FALSE, int_unit |-> u] : u \in {0, 120} }

CorrectorPoints == {0, 30, 40} \X {0, 30}

\* line 434: the call, with the working list a copy of the list passed in
InitCorrector ==
    /\ pc = "correct"
    /\ cfg \in CorrectorConfigs
    /\ coords_in \in [1..2 -> CorrectorPoints] \cup [1..3 -> CorrectorPoints]
    /\ coords = coords_in
    /\ fiberCount = Len(coords_in)
    /\ seeded_coords = <<>>
    /\ attempt = 0
    /\ seeding_count_actual = 0
    /\ iter_num = 0
    /\ fiber_centers = <<>>
    /\ error = "none"
    /\ fatal_info = NoFatal
    /\ verification = NoVerification
    /\ all_fiber_centers = <<>>
    /\ stages = <<>>
    /\ n_draws = 0
    /\ NoClassifyCall
    /\ NoPairCall
    /\ circle_centers = <<>>
    /\ mdb_models = {}
    /\ face_call = NoFaceCall

NextCorrector == CorrectIter \/ CorrectCap

SpecCorrector == InitCorrector /\ [][NextCorrector]_vars

----------------------------------------------------------------------------
(* Properties.  The periodic distance is defined here on its own, as the   *)
(* least distance over the neighbouring images of the domain.              *)

Shifts == {-1, 0, 1}

MinImageSq(a, b, rveSize) ==
    LET sq(kx, ky) ==
            (b[1] - a[1] + kx * rveSize[1]) * (b[1] - a[1] + kx * rveSize[1])
            + (b[2] - a[2] + ky * rveSize[2]) * (b[2] - a[2] + ky * rveSize[2])
        all == {sq(kx, ky) : kx \in Shifts, ky \in Shifts}
    IN  CHOOSE m \in all : \A o \in all : m <= o

RawSq(a, b) ==
    (b[1] - a[1]) * (b[1] - a[1]) + (b[2] - a[2]) * (b[2] - a[2])

RequiredSq ==
    LET d == (cfg.minDistanceFactor * cfg.fiberRadius) \div 100 IN d * d

\* the pairs i < j of the list c that are closer than minDistance
TooClose(c) ==
    {p \in (1..Len(c)) \X (1..Len(c)) :
        p[1] < p[2] /\ MinImageSq(c[p[1]], c[p[2]], cfg.rveSize) < RequiredSq}

\* some pair of the list c is nearer across the boundary than inside the domain
SomePairWraps(c) ==
    \E i, j \in 1..Len(c) :
        i < j /\ MinImageSq(c[i], c[j], cfg.rveSize) < RawSq(c[i], c[j])

PlannedAnchors == (fiberCount * cfg.rsa_seeding_ratio) \div 100

SingleAreaAtLeastDomain ==
    PiNum * cfg.fiberRadius * cfg.fiberRadius
        >= PiDen * cfg.rveSize[1] * cfg.rveSize[2]

\* C1: whenever _final_check_and_enforce returns a coordinate list, from
\* inside the correction loop or after the final scan, every pair of the
\* returned centers is at least minDistance apart in the periodic distance.
C1_ReturnedPairsApart ==
    fiber_centers # <<>> => TooClose(fiber_centers) = {}

\* the corrector has pushed a pair apart and then returned from inside its
\* loop a list with a pair that is nearest across the boundary
C1_Witness ==
    /\ pc = "export"
    /\ iter_num > 0
    /\ iter_num < max_correction_iter
    /\ Len(fiber_centers) >= 2
    /\ SomePairWraps(fiber_centers)

\* C2: every accepted center (the list _final_check_and_enforce returns
\* inside create3DRVEModel) has 0 <= x < W and 0 <= y < H, for every outcome
\* of the random draws.
C2_AcceptedCentersInDomain ==
    \A k \in 1..Len(fiber_centers) :
        /\ 0 <= fiber_centers[k][1] /\ fiber_centers[k][1] < cfg.rveSize[1]
        /\ 0 <= fiber_centers[k][2] /\ fiber_centers[k][2] < cfg.rveSize[2]

\* C3: when the corrector ends in its fatal error the run is aborted and
\* over: no CSV file, no model or geometry, no verifier, mirror, classify or
\* pair step, no accepted centers, and no further step is possible.
C3_FatalAbortsRun ==
    error = "corrector_fatal" =>
        /\ pc = "aborted"
        /\ stages = <<>>
        /\ ~verification.ran
        /\ fiber_centers = <<>>
        /\ all_fiber_centers = <<>>
        /\ ~ENABLED Next

\* the corrector failed in a run that was asked to export the coordinates
C3_Witness ==
    /\ error = "corrector_fatal"
    /\ pc = "aborted"
    /\ cfg.export_coordinates
    /\ fatal_info.pairs > 0

\* C4 as stated: every configuration with fiberArea * fiberCount >= domain
\* area is reported as invalid and stopped before the seeder draws a point.
C4_TotalAreaRejected ==
    (/\ pc # "start"
     /\ PiNum * cfg.fiberRadius * cfg.fiberRadius * fiberCount
            >= PiDen * cfg.rveSize[1] * cfg.rveSize[2])
    => (error = "invalid_config" /\ n_draws = 0)

\* C4, amended: a configuration with at least one fiber is reported as
\* invalid and stopped before the seeder draws a point exactly when the area
\* of a single fiber is at least the domain area; the total fiber area plays
\* no part.
C4_SingleAreaRejected ==
    (pc # "start" /\ fiberCount > 0) =>
        IF SingleAreaAtLeastDomain
        THEN /\ pc = "aborted"
             /\ error = "invalid_config"
             /\ n_draws = 0
             /\ seeded_coords = <<>> /\ coords = <<>> /\ stages = <<>>
        ELSE error # "invalid_config"

\* a configuration with one fiber larger than the domain has been rejected
C4_Witness ==
    /\ pc = "aborted"
    /\ error = "invalid_config"
    /\ fiberCount > 0
    /\ SingleAreaAtLeastDomain

\* C5: every configuration with pi * R^2 >= W * H, whatever the volume
\* fraction and the fiber count, is treated as invalid: no point is placed,
\* no model is built, and the run ends aborted with the configuration error.
C5_OversizedFiberRejected ==
    (pc # "start" /\ SingleAreaAtLeastDomain) =>
        /\ n_draws = 0
        /\ \A k \in 1..Len(stages) : stages[k] # "model"
        /\ pc \in {"done", "returned", "raised", "aborted"} =>
               (pc = "aborted" /\ error = "invalid_config")

\* the two ways _final_check_and_enforce ends: with the fatal error, the
\* counts it reports being those of the last configuration, or with the
\* coordinates, none of them too close
C6_Outcome ==
    /\ pc = "correct" => iter_num \in 0..max_correction_iter
    /\ error = "corrector_fatal" =>
           /\ iter_num = max_correction_iter
           /\ TooClose(coords) # {}
           /\ fatal_info.pairs = Cardinality(TooClose(coords))
           /\ fatal_info.fibers =
                  Cardinality({i \in 1..Len(coords) :
                                  \E p \in TooClose(coords) : i = p[1] \/ i = p[2]})
           /\ fiber_centers = <<>>
    /\ fiber_centers # <<>> =>
           /\ iter_num <= max_correction_iter
           /\ TooClose(fiber_centers) = {}
           /\ fiber_centers = coords
           /\ error # "corrector_fatal"

\* a step taken inside the corrector is a correction, which is counted, or
\* the end of the function
C6_Step ==
    pc = "correct" => (iter_num' = iter_num + 1 \/ pc' \in {"export", "aborted"})

\* C6: _final_check_and_enforce ends after at most max_correction_iter
\* corrections and one final scan, in one of two ways.  It raises the fatal
\* error exactly when some pair of the last configuration is closer than
\* minDistance, and then reports the number of such pairs and the number of
\* distinct points in them; otherwise it returns the coordinates.
C6_CorrectorOutcome == [](C6_Outcome) /\ [][C6_Step]_vars

\* the cap was exhausted and the final scan found two or more violating
\* pairs among three fibers
C6_Witness ==
    /\ error = "corrector_fatal"
    /\ iter_num = max_correction_iter
    /\ fatal_info.pairs >= 2
    /\ fatal_info.fibers = 3

\* C7: at every point of the RSA seeding every pair of accepted anchors is
\* at least minDistance apart in the periodic distance.
C7_AnchorsApart ==
    TooClose(seeded_coords) = {}

\* a candidate was rejected, and two anchors are accepted that are nearest
\* across the boundary
C7_Witness ==
    /\ pc = "seed"
    /\ Len(seeded_coords) >= 2
    /\ n_draws > Len(seeded_coords)
    /\ SomePairWraps(seeded_coords)

\* C8: for every outcome of the draws, congestion included, seeder and
\* filler raise no error and hand over exactly fiberCount points: first the
\* a_actual <= floor(n * s) accepted anchors in acceptance order, then the
\* n - a_actual fluid points; after congestion no further anchor is tried.
C8_SeedThenFill ==
    /\ pc \in {"seed", "fill"} => error = "none"
    /\ pc = "fill" =>
           /\ Len(coords) <= fiberCount
           /\ SubSeq(coords, 1, seeding_count_actual) = seeded_coords
    /\ (pc = "relax" /\ iter_num = 0) =>
           /\ error = "none"
           /\ Len(coords) = fiberCount
           /\ seeding_count_actual = Len(seeded_coords)
           /\ seeding_count_actual <= PlannedAnchors
           /\ SubSeq(coords, 1, seeding_count_actual) = seeded_coords
           /\ n_draws >= fiberCount
           /\ seeding_count_actual < PlannedAnchors => attempt = rsa_max_attempts

\* the seeder gave up on an anchor and the filler made up the number
C8_Witness ==
    /\ pc = "relax"
    /\ iter_num = 0
    /\ seeding_count_actual < PlannedAnchors
    /\ Len(coords) = fiberCount
    /\ fiberCount >= 3

\* C9: verifyMinimumFiberDistance3D passes exactly when the least periodic
\* distance over all pairs is >= minDistanceFactor * fiberRadius, which is
\* when its list of violations is empty; it checks n(n-1)/2 pairs; for a list
\* of length 0 or 1 it passes without computing a distance.
C9_VerifierVerdict ==
    pc = "verified" =>
        LET n == Len(fiber_centers)
            dists == {MinImageSq(fiber_centers[p[1]], fiber_centers[p[2]], cfg.rveSize) :
                        p \in {q \in (1..n) \X (1..n) : q[1] < q[2]}}
        IN  /\ verification.ran
            /\ verification.passed <=> (\A d \in dists : d >= RequiredSq)
            /\ verification.passed <=> (verification.violations = <<>>)
            /\ Len(verification.violations) = Cardinality(TooClose(fiber_centers))
            /\ verification.total_pairs * 2 = n * (n - 1)
            /\ n <= 1 => (verification.passed /\ verification.min_distance_sq = -1)
            /\ n >= 2 => /\ verification.min_distance_sq \in dists
                         /\ \A d \in dists : verification.min_distance_sq <= d

\* three centers whose closest pair is exactly minDistance apart pass
C9_Witness ==
    /\ pc = "verified"
    /\ Len(fiber_centers) = 3
    /\ verification.passed
    /\ verification.total_pairs = 3
    /\ verification.min_distance_sq = RequiredSq

\* the edges of the domain the center c is closer to than the radius
NearEdges(c) ==
    {e \in {"left", "right", "bottom", "top"} :
        \/ e = "left" /\ c[1] < cfg.fiberRadius
        \/ e = "right" /\ cfg.rveSize[1] - c[1] < cfg.fiberRadius
        \/ e = "bottom" /\ c[2] < cfg.fiberRadius
        \/ e = "top" /\ cfg.rveSize[2] - c[2] < cfg.fiberRadius}

\* the center c shifted by the domain extent across the edge e
AcrossEdge(c, e) ==
    CASE e = "left" -> <<c[1] + cfg.rveSize[1], c[2]>>
      [] e = "right" -> <<c[1] - cfg.rveSize[1], c[2]>>
      [] e = "bottom" -> <<c[1], c[2] + cfg.rveSize[2]>>
      [] e = "top" -> <<c[1], c[2] - cfg.rveSize[2]>>

\* the periodic images of c in the neighbouring domains
Images(c) ==
    {<<c[1] + kx * cfg.rveSize[1], c[2] + ky * cfg.rveSize[2]>> :
        kx \in Shifts, ky \in Shifts} \ {c}

\* C10: buildAllFiberCenters3D gives a center that is closer than the radius
\* to exactly one edge exactly one extra point, the center shifted by the
\* domain extent across that edge, and no image toward any other edge.
C10_OneEdgeOneMirror ==
    pc = "mirrored" =>
        \A k \in 1..Len(fiber_centers) :
            LET c == fiber_centers[k]
                extra == {m \in 1..Len(all_fiber_centers) :
                             all_fiber_centers[m] \in Images(c)}
            IN  Cardinality(NearEdges(c)) = 1 =>
                    /\ Cardinality(extra) = 1
                    /\ \A m \in extra : \A e \in NearEdges(c) :
                           all_fiber_centers[m] = AcrossEdge(c, e)
                    /\ Len(fiber_centers) = 1 =>
                           \A e \in NearEdges(c) :
                               all_fiber_centers = <<c, AcrossEdge(c, e)>>

\* the center (1, 100) in a domain 200 wide with radius 10 gives (201, 100)
C10_Witness ==
    /\ pc = "mirrored"
    /\ fiber_centers = <<<<1, 100>>>>
    /\ all_fiber_centers = <<<<1, 100>>, <<201, 100>>>>

\* the corners of the domain, each named by the two edges that meet in it
Corners == {"left", "right"} \X {"bottom", "top"}

\* the squared distance of the center c to the corner k
CornerDistSq(c, k) ==
    LET ax == IF k[1] = "left" THEN c[1] ELSE cfg.rveSize[1] - c[1]
        ay == IF k[2] = "bottom" THEN c[2] ELSE cfg.rveSize[2] - c[2]
    IN  ax * ax + ay * ay

\* the center c shifted by the domain extent across both edges of the corner k
AcrossCorner(c, k) ==
    <<AcrossEdge(c, k[1])[1], AcrossEdge(c, k[2])[2]>>

\* the center c is within the radius of both edges of the corner k and of
\* its vertex
NearCorner(c, k) ==
    /\ k[1] \in NearEdges(c)
    /\ k[2] \in NearEdges(c)
    /\ CornerDistSq(c, k) < cfg.fiberRadius * cfg.fiberRadius

Returned(centers) == {centers[m] : m \in 1..Len(centers)}

\* C11: buildAllFiberCenters3D adds the diagonal image of a center for a
\* corner exactly when the center is within the radius of both edges meeting
\* there and closer than the radius to the vertex; such a center gets one
\* diagonal image besides its two edge images, and a center near both edges
\* but not closer than the radius to the vertex gets none.
C11_DiagonalMirror ==
    pc = "mirrored" =>
        \A i \in 1..Len(fiber_centers) :
            LET c == fiber_centers[i]
                diagonals == {k \in Corners :
                                 AcrossCorner(c, k) \in Returned(all_fiber_centers)}
            IN  /\ \A k \in Corners : k \in diagonals <=> NearCorner(c, k)
                /\ Cardinality(diagonals) <= 1
                /\ \A k \in Corners :
                       (NearCorner(c, k) /\ Len(fiber_centers) = 1) =>
                           all_fiber_centers =
                               <<c, AcrossEdge(c, k[1]), AcrossEdge(c, k[2]),
                                 AcrossCorner(c, k)>>

\* the center (1, 1), closer than the radius to the corner (0, 0), gets its
\* two edge images and the diagonal image
C11_Witness ==
    /\ pc = "mirrored"
    /\ fiber_centers = <<<<1, 1>>>>
    /\ all_fiber_centers = <<<<1, 1>>, <<201, 1>>, <<1, 201>>, <<201, 201>>>>

\* two points closer than the tolerance 1e-6 in both axes
Duplicates(a, b) ==
    /\ Abs(a[1] - b[1]) * ToleranceDen < 1
    /\ Abs(a[2] - b[2]) * ToleranceDen < 1

\* the original and the images buildAllFiberCenters3D generates for c
Candidates(c) ==
    {c} \cup {AcrossEdge(c, e) : e \in NearEdges(c)}
        \cup {AcrossCorner(c, k) : k \in {q \in Corners : NearCorner(c, q)}}

\* C12: in the list buildAllFiberCenters3D returns no two entries differ by
\* less than the tolerance in both x and y, and every candidate generated
\* before the de-duplication is within the tolerance of a returned entry.
C12_NoDuplicates ==
    pc = "mirrored" =>
        /\ \A m, n \in 1..Len(all_fiber_centers) :
               m # n => ~Duplicates(all_fiber_centers[m], all_fiber_centers[n])
        /\ \A i \in 1..Len(fiber_centers) :
               \A p \in Candidates(fiber_centers[i]) :
                   \E m \in 1..Len(all_fiber_centers) :
                       Duplicates(p, all_fiber_centers[m])
        /\ \A m \in 1..Len(all_fiber_centers) :
               \E i \in 1..Len(fiber_centers) :
                   all_fiber_centers[m] \in Candidates(fiber_centers[i])

\* the same corner center given twice: eight candidates, four entries returned
C12_Witness ==
    /\ pc = "mirrored"
    /\ fiber_centers = <<<<199, 1>>, <<199, 1>>>>
    /\ Len(all_fiber_centers) = 4

\* the call of classifyCellsImproved is over
ClassifyOver == pc \in {"classified", "classify_raised"}

Entries(list) == {list[m] : m \in 1..Len(list)}

\* the primary matrix region: the first cell of the largest size
Primary ==
    CHOOSE k \in 1..Len(all_cells) :
        \A j \in 1..Len(all_cells) :
            \/ all_cells[k].size > all_cells[j].size
            \/ all_cells[k].size = all_cells[j].size /\ k <= j

\* the regions other than the primary one
Others == (1..Len(all_cells)) \ {Primary}

\* the cell gives a center by one of the two methods
DirectCentroid(cell) == cell.centroid.status = "ok"
VertexCentroid(cell) ==
    /\ cell.vertices.status = "ok"
    /\ \E m \in 1..Len(cell.vertices.list) : cell.vertices.list[m].pointOn

\* the squared XY distance from the center of the cell k, as the
\* classification recorded it, to the nearest mirrored fiber center is below
\* the squared radius
CentroidInsideFiber(k) ==
    LET cell == all_cells[k]
        usable == SelectSeq(cell.vertices.list, LAMBDA v : v.pointOn)
        x == IF DirectCentroid(cell) THEN cell.centroid.point[1]
             ELSE RoundDiv(SumSeq([m \in 1..Len(usable) |-> usable[m].coord[1]]),
                           Len(usable))
        y == IF DirectCentroid(cell) THEN cell.centroid.point[2]
             ELSE RoundDiv(SumSeq([m \in 1..Len(usable) |-> usable[m].coord[2]]),
                           Len(usable))
    IN  /\ DirectCentroid(cell) \/ VertexCentroid(cell)
        /\ \E m \in 1..Len(all_fiber_centers) :
               RawSq(<<x, y>>, all_fiber_centers[m])
                   < cfg.fiberRadius * cfg.fiberRadius

\* C13: whenever classifyCellsImproved returns, the fiber list and the
\* matrix list are disjoint and together hold every cell exactly once, and
\* the first entry of the matrix list is a cell of the largest size, whatever
\* its distance to a fiber center.
C13_Partition ==
    pc = "classified" =>
        LET fiber == classification.fiber_cells_list
            matrix == classification.matrix_cells_list
        IN  /\ Entries(fiber) \cap Entries(matrix) = {}
            /\ Entries(fiber) \cup Entries(matrix) = 1..Len(all_cells)
            /\ Len(fiber) + Len(matrix) = Len(all_cells)
            /\ Len(matrix) >= 1
            /\ \A j \in 1..Len(all_cells) :
                   all_cells[matrix[1]].size >= all_cells[j].size

\* cells not given by decreasing size are classified; the largest has its
\* centroid on a fiber center and is the primary matrix region, one other
\* cell is a fiber and one a fragment
C13_Witness ==
    /\ pc = "classified"
    /\ Primary > 1
    /\ CentroidInsideFiber(Primary)
    /\ Len(classification.fiber_cells_list) >= 1
    /\ Len(classification.matrix_cells_list) >= 2

\* C14: with fewer regions besides the primary one than mirrored centers,
\* classifyCellsImproved raises the fatal error and returns no
\* classification: no region is labelled and no centroid is asked for.
C14_FewerCellsFatal ==
    (ClassifyOver /\ Cardinality(Others) < Len(all_fiber_centers)) =>
        /\ pc = "classify_raised"
        /\ classification.outcome = "cell_count_anomaly"
        /\ classification.fiber_cells_list = <<>>
        /\ classification.matrix_cells_list = <<>>
        /\ classification.queried = <<>>

\* one fiber with an image, and only one cell besides the primary one
C14_Witness ==
    /\ pc = "classify_raised"
    /\ classification.outcome = "cell_count_anomaly"
    /\ Len(all_fiber_centers) = 2
    /\ Len(all_cells) = 2

\* C15: with as many regions besides the primary one as mirrored centers,
\* every one of them is labelled fiber and the matrix list holds the primary
\* region only, and no centroid is asked for; a region that has no centroid
\* does not make the call fail.
C15_EqualCountAllFiber ==
    (ClassifyOver /\ Cardinality(Others) = Len(all_fiber_centers)) =>
        /\ pc = "classified"
        /\ Entries(classification.fiber_cells_list) = Others
        /\ Len(classification.fiber_cells_list) = Cardinality(Others)
        /\ classification.matrix_cells_list = <<Primary>>
        /\ classification.queried = <<>>

\* two mirrored centers and two other cells, one of which has no centroid
\* by either method
C15_Witness ==
    /\ pc = "classified"
    /\ Len(all_fiber_centers) = 2
    /\ Cardinality(Others) = 2
    /\ \E k \in Others :
           ~DirectCentroid(all_cells[k]) /\ ~VertexCentroid(all_cells[k])

\* C16: with more regions besides the primary one than mirrored centers, a
\* region is labelled fiber exactly when the least XY distance from its
\* centroid to a mirrored center is strictly below the radius, z being
\* ignored; otherwise it is appended to the matrix list as a fragment.
C16_DistanceDecides ==
    (pc = "classified" /\ Cardinality(Others) > Len(all_fiber_centers)) =>
        /\ classification.matrix_cells_list[1] = Primary
        /\ \A k \in Others :
               /\ k \in Entries(classification.fiber_cells_list)
                      <=> CentroidInsideFiber(k)
               /\ k \in Entries(classification.matrix_cells_list)
                      <=> ~CentroidInsideFiber(k)

\* a cell far away in z over the image of a fiber is labelled fiber, and
\* another cell is a fragment
C16_Witness ==
    /\ pc = "classified"
    /\ Cardinality(Others) > Len(all_fiber_centers)
    /\ Len(classification.matrix_cells_list) >= 2
    /\ \E m \in 1..Len(classification.fiber_cells_list) :
           LET cell == all_cells[classification.fiber_cells_list[m]]
           IN  DirectCentroid(cell) /\ cell.centroid.point[3] > 100

\* C17: in the classification region by region the centroid comes from the
\* direct query when that succeeds, the vertex average is used only when the
\* direct query fails or gives nothing usable, and when both fail the
\* classification ends with the fatal error and no region gets a label.
C17_CentroidFallback ==
    (ClassifyOver /\ Cardinality(Others) > Len(all_fiber_centers)) =>
        LET asked == classification.queried
            failing == {k \in Others : ~DirectCentroid(all_cells[k])
                                       /\ ~VertexCentroid(all_cells[k])}
        IN  /\ \A m \in 1..Len(asked) :
                   asked[m].method = "centroid" <=> DirectCentroid(all_cells[asked[m].cell])
            /\ classification.outcome = "no_cell_center" <=> failing # {}
            /\ failing = {} =>
                   (pc = "classified" /\ {asked[m].cell : m \in 1..Len(asked)} = Others)
            /\ failing # {} =>
                   /\ pc = "classify_raised"
                   /\ classification.fiber_cells_list = <<>>
                   /\ classification.matrix_cells_list = <<>>
                   /\ asked[Len(asked)].cell \in failing
                   /\ \A m \in 1..(Len(asked) - 1) : asked[m].cell \notin failing

\* a cell got its center from its vertices, and the next one had none
C17_Witness ==
    /\ pc = "classify_raised"
    /\ classification.outcome = "no_cell_center"
    /\ Len(classification.queried) = 2
    /\ classification.queried[1].method = "vertices"

\* the squared in-plane distance of the slave node s and the master node m
InPlaneSq(s, m) ==
    LET i1 == pair_args.coord_indices[1]
        i2 == pair_args.coord_indices[2]
    IN  (slave_nodes[s][i1] - master_nodes[m][i1]) * (slave_nodes[s][i1] - master_nodes[m][i1])
        + (slave_nodes[s][i2] - master_nodes[m][i2]) * (slave_nodes[s][i2] - master_nodes[m][i2])

\* C18: in the result of pairBoundaryNodes3D every pair is a slave node with
\* a master node, each slave node and each master node is in at most one
\* pair, and there are at most min(|slave|, |master|) pairs.
C18_OneToOne ==
    /\ \A a \in 1..Len(paired_nodes) :
           /\ paired_nodes[a][1] \in 1..Len(slave_nodes)
           /\ paired_nodes[a][2] \in 1..Len(master_nodes)
    /\ \A a, b \in 1..Len(paired_nodes) :
           a # b => /\ paired_nodes[a][1] # paired_nodes[b][1]
                    /\ paired_nodes[a][2] # paired_nodes[b][2]
    /\ Len(paired_nodes) <= Len(slave_nodes)
    /\ Len(paired_nodes) <= Len(master_nodes)

\* three slave nodes at one place shared two master nodes within the
\* tolerance; the third slave node stayed unmatched
C18_Witness ==
    /\ pc = "paired"
    /\ Len(slave_nodes) = 3
    /\ slave_nodes[1] = slave_nodes[2] /\ slave_nodes[2] = slave_nodes[3]
    /\ Len(master_nodes) = 2
    /\ Len(paired_nodes) = 2

\* what one pass of the slave loop does: the slave node s_next takes, of the
\* master nodes still in the pool and closer than the tolerance, the nearest,
\* the earliest of the nearest; without such a node nothing changes
C19_Step ==
    (pc = "pairing" /\ s_next <= Len(slave_nodes)) =>
        LET within == {m \in Entries(master_pool) :
                          InPlaneSq(s_next, m)
                              < pair_args.tolerance * pair_args.tolerance}
        IN  /\ s_next' = s_next + 1
            /\ IF within = {}
               THEN master_pool' = master_pool /\ paired_nodes' = paired_nodes
               ELSE \E b \in within :
                       /\ \A m \in within :
                              \/ InPlaneSq(s_next, b) < InPlaneSq(s_next, m)
                              \/ InPlaneSq(s_next, b) = InPlaneSq(s_next, m) /\ b <= m
                       /\ paired_nodes' = Append(paired_nodes, <<s_next, b>>)
                       /\ master_pool' = SelectSeq(master_pool, LAMBDA x : x # b)

\* C19: pairBoundaryNodes3D takes the slave nodes in list order; each is
\* paired with the master node, of those not consumed by earlier slave
\* nodes, of least in-plane distance on the two given coordinates (the
\* earliest on ties) if that distance is strictly below the tolerance;
\* otherwise it stays unmatched and the master pool is unchanged.
C19_GreedyNearest == [][C19_Step]_vars

\* the nearest master node was not the first within the tolerance, an
\* earlier slave node stayed unmatched, and a tie went to the earlier node
C19_Witness ==
    /\ pc = "paired"
    /\ Len(master_nodes) = 3
    /\ master_nodes[2] = master_nodes[3]
    /\ \E a \in 1..Len(paired_nodes) :
           /\ paired_nodes[a][2] = 2
           /\ InPlaneSq(paired_nodes[a][1], 1) < pair_args.tolerance * pair_args.tolerance
           /\ InPlaneSq(paired_nodes[a][1], 2) < InPlaneSq(paired_nodes[a][1], 1)
    /\ \E s \in 1..Len(slave_nodes) :
           \A a \in 1..Len(paired_nodes) : paired_nodes[a][1] # s

\* C20: the accepted centers are written to the CSV file only after
\* verifyMinimumFiberDistance3D has passed on them, so that a run in which
\* the verification fails has written no CSV file.
C20_ExportAfterVerifier ==
    "csv" \in Entries(stages) => (verification.ran /\ verification.passed)

\* the distance of the pair p of the working list, as the relaxer measures
\* it: the root of the least squared distance over the periodic images
PairDistance(p) == Sqrt(MinImageSq(coords[p[1]], coords[p[2]], cfg.rveSize))

\* the relaxer's pairs closer than minDistance, coincident points included
ClosePairs ==
    {p \in Pairs(fiberCount) :
        MinImageSq(coords[p[1]], coords[p[2]], cfg.rveSize)
            < minDistance(cfg) * minDistance(cfg)}

\* C21: in an iteration of the relaxer every pair (i, j) closer than
\* minDistance, coincident points included, puts on j a force of magnitude
\* minDistance - distance along the minimum-image delta from i to j and on i
\* the opposite force; every other pair contributes nothing.
C21_RepulsiveForce ==
    (pc = "relax" /\ iter_num < max_iterations) =>
        \A p \in Pairs(fiberCount) :
            LET f == PairForce(coords, p[1], p[2], cfg)
                d == PairDelta(coords, p[1], p[2], cfg.rveSize, HalfSize2(cfg))
                overlap == minDistance(cfg) - PairDistance(p)
            IN  IF p \in ClosePairs
                THEN /\ \A ax \in 1..2 :
                            2 * Abs(f[ax] * PairDistance(p) - overlap * ForceScale * d[ax])
                                <= PairDistance(p)
                     /\ overlap > 0 => f # <<0, 0>>
                ELSE f = <<0, 0>>

\* net_forces[k] of the iteration about to run, in 1/ForceScale units
NetForceOn(k) == NetForce(coords, k, fiberCount, cfg)

\* the iteration about to run moves the points
RelaxerMoves ==
    /\ pc = "relax"
    /\ iter_num < max_iterations
    /\ \E k \in 1..fiberCount : NetForceOn(k) # <<0, 0>>

\* the divisor that turns the net force on point k into its displacement:
\* 1 / 0.5 for a fluid point, 1 / (0.05 * 0.5) for one of the anchors placed
DisplacementDen(k) ==
    IF k <= seeding_count_actual THEN 40 * ForceScale ELSE 2 * ForceScale

\* an iteration that moves points displaces point k by its net force over
\* DisplacementDen(k) and reduces each coordinate modulo the extent
C22_Step ==
    RelaxerMoves =>
        \A k \in 1..fiberCount : \A ax \in 1..2 :
            LET moved == RoundDiv(coords[k][ax] * DisplacementDen(k) + NetForceOn(k)[ax],
                                  DisplacementDen(k))
            IN  /\ (coords'[k][ax] - moved) % cfg.rveSize[ax] = 0
                /\ coords'[k][ax] \in 0..cfg.rveSize[ax]

\* C22: a relaxer iteration that moves points displaces point i by
\* 0.5 * netForce_i when i is a fluid point and by 0.05 * 0.5 * netForce_i
\* when i is an anchor, the anchors being the seeding_count_actual points
\* the seeding placed, not the planned number; then every coordinate is
\* reduced modulo the domain extent.
C22_Displacement == [][C22_Step]_vars

\* the seeding placed fewer anchors than planned, and an iteration has moved
\* a fluid point that was planned as an anchor off the place it was drawn at
C22_Witness ==
    /\ pc = "relax"
    /\ iter_num >= 1
    /\ seeding_count_actual < PlannedAnchors
    /\ \/ coords[PlannedAnchors][1] \notin Uniform(cfg.rveSize[1])
       \/ coords[PlannedAnchors][2] \notin Uniform(cfg.rveSize[2])

\* the squared distance of the pair p as the corrector measures it
MeasuredSq(p) ==
    LET raw(ax) == coords[p[2]][ax] - coords[p[1]][ax]
        up(ax) == IF 2 * raw(ax) > HalfSize2(cfg)[ax].pos
                  THEN raw(ax) - cfg.rveSize[ax] ELSE raw(ax)
        dn(ax) == IF 2 * up(ax) < HalfSize2(cfg)[ax].neg
                  THEN up(ax) + cfg.rveSize[ax] ELSE up(ax)
    IN  dn(1) * dn(1) + dn(2) * dn(2)

\* the pairs no other pair is measured closer than
NearestPairs ==
    {p \in Pairs(fiberCount) :
        \A q \in Pairs(fiberCount) : MeasuredSq(p) <= MeasuredSq(q)}

\* the points a step moves
Moved == {k \in 1..Len(coords) : coords'[k] # coords[k]}

\* a step of the corrector moves at most the two points of one nearest pair
\* and leaves the list it was given as it is
C23_Step ==
    pc = "correct" =>
        /\ coords_in' = coords_in
        /\ Len(coords') = Len(coords)
        /\ Cardinality(Moved) <= 2
        /\ Moved # {} => \E p \in NearestPairs : Moved \subseteq {p[1], p[2]}

\* C23: an iteration of the corrector changes the coordinates of at most two
\* points, the two members of the pair it selected; every other point keeps
\* its coordinates, and the list the caller passed in is never modified.
C23_OnlyThePairMoves == [][C23_Step]_vars

\* among three points the corrector has pushed a pair apart: the working
\* list differs from the list passed in, in which a third point stands
\* where it stood
C23_Witness ==
    /\ pc = "correct"
    /\ iter_num >= 1
    /\ fiberCount = 3
    /\ coords # coords_in
    /\ Len(coords_in) = 3
    /\ \E k \in 1..3 : coords[k] = coords_in[k]

\* the pair the corrector is about to push apart, when it finds a violation
Violating ==
    /\ pc = "correct"
    /\ iter_num < max_correction_iter
    /\ Pairs(fiberCount) # {}
    /\ \E p \in NearestPairs : MeasuredSq(p) < minDistance(cfg) * minDistance(cfg)

\* an iteration that finds a violating pair leaves its first nearest pair
\* farther apart, in the periodic distance, than it found it
C24_Step ==
    Violating =>
        \E p \in NearestPairs :
            /\ \A q \in NearestPairs : p = q \/ Before(p, q)
            /\ MinImageSq(coords'[p[1]], coords'[p[2]], cfg.rveSize)
                   > MinImageSq(coords[p[1]], coords[p[2]], cfg.rveSize)

\* C24: every iteration of the corrector that finds a violating worst pair
\* makes progress on it: after the push and the wrap the periodic distance
\* of that pair is strictly greater than before, whatever the distance in
\* [0, minDistance) it started from.
C24_PushMakesProgress == [][C24_Step]_vars

\* the pairs of least periodic distance, and the first of them in row-major
\* order
LeastPairs ==
    {p \in Pairs(fiberCount) :
        \A q \in Pairs(fiberCount) :
            MinImageSq(coords[p[1]], coords[p[2]], cfg.rveSize)
                <= MinImageSq(coords[q[1]], coords[q[2]], cfg.rveSize)}

FirstLeastPair ==
    CHOOSE p \in LeastPairs : \A q \in LeastPairs : p = q \/ Before(p, q)

\* an iteration of the corrector returns the list as it is when the least
\* periodic distance is minDistance or more, and otherwise moves no point
\* outside the first pair of least periodic distance
C25_Step ==
    (pc = "correct" /\ iter_num < max_correction_iter /\ Pairs(fiberCount) # {}) =>
        IF MinImageSq(coords[FirstLeastPair[1]], coords[FirstLeastPair[2]], cfg.rveSize)
               >= minDistance(cfg) * minDistance(cfg)
        THEN /\ pc' = "export"
             /\ fiber_centers' = coords
             /\ coords' = coords
        ELSE Moved \subseteq {FirstLeastPair[1], FirstLeastPair[2]}

\* C25: the pair an iteration of the corrector selects is a pair of least
\* periodic distance, the first in row-major order among equals; when that
\* distance is minDistance or more the corrector succeeds at once and
\* returns the coordinates unchanged.
C25_WorstPairFirst == [][C25_Step]_vars

\* the squared distance of the node l of the low face and the node h of the
\* high face, in the plane of the two faces
FaceInPlaneSq(l, h) ==
    LET idx == FaceCoordIndices(face_call.axis)
        a == face_call.nodes_low[l]
        b == face_call.nodes_high[h]
    IN  (a[idx[1]] - b[idx[1]]) * (a[idx[1]] - b[idx[1]])
        + (a[idx[2]] - b[idx[2]]) * (a[idx[2]] - b[idx[2]])

\* C26: for each axis pairBoundaryNodes3D is called with the face that is
\* not longer than the other as the slave list; every pair of the result
\* has the node of the low face first and the node of the high face second,
\* whichever face was the slave; the unmatched count of each face is its
\* size minus the number of pairs and is never negative.
C26_LowFaceFirst ==
    /\ pc \in {"pairing", "paired", "faces_paired"} =>
           /\ Len(slave_nodes) <= Len(master_nodes)
           /\ \/ /\ ~face_call.swapped
                 /\ slave_nodes = face_call.nodes_low
                 /\ master_nodes = face_call.nodes_high
              \/ /\ face_call.swapped
                 /\ slave_nodes = face_call.nodes_high
                 /\ master_nodes = face_call.nodes_low
    /\ pc = "faces_paired" =>
           /\ Len(face_call.pairs) = Len(paired_nodes)
           /\ \A k \in 1..Len(face_call.pairs) :
                  /\ face_call.pairs[k][1] \in 1..Len(face_call.nodes_low)
                  /\ face_call.pairs[k][2] \in 1..Len(face_call.nodes_high)
                  /\ FaceInPlaneSq(face_call.pairs[k][1], face_call.pairs[k][2])
                         < face_call.tolerance * face_call.tolerance
           /\ face_call.unpaired_low = Len(face_call.nodes_low) - Len(face_call.pairs)
           /\ face_call.unpaired_high = Len(face_call.nodes_high) - Len(face_call.pairs)
           /\ face_call.unpaired_low >= 0
           /\ face_call.unpaired_high >= 0

\* the high face was the shorter list and the slave; a pair was found whose
\* two nodes have different positions in their lists, and a node of the low
\* face stayed unmatched
C26_Witness ==
    /\ pc = "faces_paired"
    /\ face_call.swapped
    /\ \E k \in 1..Len(face_call.pairs) :
           face_call.pairs[k][1] # face_call.pairs[k][2]
    /\ face_call.unpaired_low > 0
    /\ face_call.unpaired_high = 0

\* a step taken while the generation has not ended with success deletes no
\* model that was there before the run and gives no model the target name
C27_Step ==
    (pc \in {"aborted", "returned"}) =>
        /\ \A m \in mdb_models : m.name # tempModelName => m \in mdb_models'
        /\ \A m \in mdb_models' : m.name = targetModelName => m \in mdb_models

\* C27: the main block replaces an existing model only after a successful
\* generation: when create3DRVEModel stops early (invalid configuration,
\* fatal error of the corrector, or the return after 'No mesh generated')
\* the models that existed are still present and no model has the target
\* name because of this run.
C27_ReplaceOnlyAfterSuccess == [][C27_Step]_vars

\* the iteration about to run finds every net force zero and leaves through
\* the exit that prints 'System stable. No overlaps detected.'
RelaxerStable ==
    /\ pc = "relax"
    /\ iter_num < max_iterations
    /\ \A k \in 1..fiberCount : NetForceOn(k) = <<0, 0>>

\* the relaxer leaves through the stable exit only with no pair too close
C28_Step == (RelaxerStable /\ pc' = "correct") => ClosePairs = {}

\* C28: when the relaxer returns through 'System stable. No overlaps
\* detected.' no pair of the returned points is closer than minDistance
\* under the minimum-image distance.
C28_StableMeansNoOverlap == [][C28_Step]_vars

\* C29: the success criterion of _final_check_and_enforce and the verifier
\* agree: on every list the corrector returns, verifyMinimumFiberDistance3D
\* with the same rveSize and minDistance passes with no violating pair, so
\* the exception 'Minimum distance requirement not satisfied!' of
\* create3DRVEModel is never raised.
C29_VerifierAgrees ==
    /\ verification.ran =>
           (verification.passed /\ verification.violations = <<>>)
    /\ error # "verification_failed"

\* the accepted center c is closer than the radius to both edges of a
\* corner of the domain and at least one radius from the corner vertex
NearEdgesFarFromCorner(c) ==
    LET w == cfg.rveSize[1]
        h == cfg.rveSize[2]
        r == cfg.fiberRadius
        ex == IF c[1] < r THEN c[1] ELSE w - c[1]
        ey == IF c[2] < r THEN c[2] ELSE h - c[2]
    IN  /\ c[1] < r \/ c[1] > w - r
        /\ c[2] < r \/ c[2] > h - r
        /\ ex * ex + ey * ey >= r * r

\* the images of c across a corner of the domain
DiagonalImages(c) ==
    {<<c[1] + sx * cfg.rveSize[1], c[2] + sy * cfg.rveSize[2]>> :
        sx \in {-1, 1}, sy \in {-1, 1}}

\* the circle centers of Step 2 that buildAllFiberCenters3D does not return
OnlyInGeometry == Entries(circle_centers) \ Entries(all_fiber_centers)

\* C30: for every accepted center list the centers returned by
\* buildAllFiberCenters3D are among the circle centers of Step 2, both
\* contain every original center, and a circle center that the mirror
\* builder does not return is a diagonal image of a center closer than the
\* radius to both edges of a corner and at least the radius from its vertex.
C30_ImagesAgree ==
    pc = "mirrored" =>
        /\ Entries(all_fiber_centers) \subseteq Entries(circle_centers)
        /\ Entries(fiber_centers) \subseteq Entries(all_fiber_centers)
        /\ Entries(fiber_centers) \subseteq Entries(circle_centers)
        /\ \A p \in OnlyInGeometry :
               \E c \in Entries(fiber_centers) :
                   NearEdgesFarFromCorner(c) /\ p \in DiagonalImages(c)

\* two accepted centers: one has a diagonal image only among the circle
\* centers of Step 2, the other is mirrored across an edge in both lists
C30_Witness ==
    /\ pc = "mirrored"
    /\ Len(fiber_centers) = 2
    /\ OnlyInGeometry # {}
    /\ \E c \in Entries(fiber_centers) :
           /\ ~NearEdgesFarFromCorner(c)
           /\ <<c[1], c[2] - cfg.rveSize[2]>> \in Entries(all_fiber_centers)
           /\ <<c[1], c[2] - cfg.rveSize[2]>> \in Entries(circle_centers)

====
